---- MODULE Spec2Model ----
(***************************************************************************)
(* A model of the SEAL wrapper crate of Sunscreen: the BFVEncoder          *)
(* (src/seal/src/encoder.rs) and the Evaluator / BFVEvaluator              *)
(* (src/seal/src/evaluator.rs).  The wrappers own opaque backend handles   *)
(* and forward every operation to the native backend (bindgen).  The      *)
(* backend is modelled as a heap of objects addressed by handle; a         *)
(* ciphertext object carries the ring element it decrypts to, its size,    *)
(* its NTT flag and its level in the modulus chain.                        *)
(***************************************************************************)
EXTENDS Integers, Sequences, FiniteSets, TLC

VARIABLES
    ctx,          \* the Context the harness built (ring degree N, plain modulus T, chain length K)
    phase,        \* "new" | "run" | "teardown" | "done" | "aborted"
    heap,         \* backend memory: handle -> object, for the handles now allocated
    faults,       \* memory faults seen so far: "double_release", "use_after_release"
    encoder,      \* BFVEncoder.handle, or Null
    evaluator,    \* BFVEvaluator.0.handle, or Null
    x,            \* Ciphertext wrapper a_c: a handle, or Null
    y,            \* Ciphertext wrapper b_c
    out,          \* Ciphertext wrapper holding the result of the last out-of-place call
    w,            \* Ciphertext wrapper of b encrypted under a second Context instance
    p,            \* Plaintext wrapper b_p
    data,         \* the vectors the harness encoded: [a, b]
    decoded,      \* the last decode: the Result it returned and the length the backend reported
    last,         \* what the last call was and what it returned
    running       \* thread -> the call the thread is in, with the borrow it holds

vars == <<ctx, phase, heap, faults, encoder, evaluator, x, y, w, out, p,
          data, decoded, last, running>>

Null == 0

-----------------------------------------------------------------------------
(* Bounds of the model.                                                    *)

\* the largest ciphertext size a multiplication may produce in the model
MaxSize == 4
\* the largest exponent given to exponentiate
MaxExponent == 4
\* the longest list given to add_many and multiply_many
MaxList == 2

-----------------------------------------------------------------------------
(* Status codes of the C bindings and the error kinds of the crate.        *)

E_OK == "E_OK"

Ok(v) == [tag |-> "Ok", val |-> v]
Err(kind) == [tag |-> "Err", val |-> kind]
Panic(msg) == [tag |-> "Panic", val |-> msg]
IsOk(r) == r.tag = "Ok"
IsErr(r) == r.tag = "Err"

\* error.rs: a status other than E_OK becomes the Err of its kind
convert_seal_error(status) ==
    IF status = E_OK THEN Ok(Null) ELSE Err(status)

-----------------------------------------------------------------------------
(* Arithmetic of the plaintext ring Z_T[X]/(X^N+1).  A ring element is the *)
(* sequence of its N coefficients.                                         *)

RECURSIVE ModPow(_, _, _)
ModPow(b, e, m) == IF e = 0 THEN 1 % m ELSE (b * ModPow(b, e - 1, m)) % m

ModInv(a, m) == CHOOSE b \in 1..(m - 1) : (a * b) % m = 1

RECURSIVE SumTo(_, _)
\* f[0] + ... + f[n-1]
SumTo(f, n) == IF n = 0 THEN 0 ELSE f[n - 1] + SumTo(f, n - 1)

\* batching_enabled: T is congruent to 1 modulo 2N
batching_enabled(c) == c.T % (2 * c.N) = 1

\* a primitive 2N-th root of unity modulo T (it exists when batching is enabled)
Root(c) == CHOOSE z \in 1..(c.T - 1) : ModPow(z, c.N, c.T) = c.T - 1

\* slot i of the 2-by-(N/2) matrix sits at the root Root^SlotExp(i): row 0 at the
\* powers 3^i, row 1 at their inverses
SlotExp(c, i) ==
    LET half == c.N \div 2 IN
    IF i < half THEN ModPow(3, i, 2 * c.N)
    ELSE (2 * c.N) - ModPow(3, i - half, 2 * c.N)

\* the value of the ring element at Root^e
EvalAt(c, poly, e) ==
    SumTo([j \in 0..(c.N - 1) |-> poly[j + 1] * ModPow(Root(c), (e * j) % (2 * c.N), c.T)], c.N) % c.T

\* the N slot values of a ring element (the CRT map)
Slots(c, poly) == [i \in 1..c.N |-> EvalAt(c, poly, SlotExp(c, i - 1))]

\* the ring element with the given N slot values (the inverse CRT map)
Compose(c, slots) ==
    LET ninv == ModInv(c.N % c.T, c.T) IN
    [j \in 1..c.N |->
        (ninv * SumTo([i \in 0..(c.N - 1) |->
                slots[i + 1] * ModPow(Root(c), ((2 * c.N - SlotExp(c, i)) * (j - 1)) % (2 * c.N), c.T)],
              c.N)) % c.T]

ZeroPoly(c) == [j \in 1..c.N |-> 0]

PolyAdd(c, f, g) == [j \in 1..c.N |-> (f[j] + g[j]) % c.T]
PolyNeg(c, f) == [j \in 1..c.N |-> (c.T - f[j]) % c.T]
PolySub(c, f, g) == PolyAdd(c, f, PolyNeg(c, g))

\* the negacyclic product: X^N = -1
PolyMul(c, f, g) ==
    [k \in 1..c.N |->
        (SumTo([i \in 0..(c.N - 1) |->
            LET j == (k - 1 - i) % c.N
                term == f[i + 1] * g[j + 1]
            IN IF i + j = k - 1 THEN term ELSE (c.T * c.T) - term], c.N)) % c.T]

\* the automorphism X -> X^g of the ring, g odd
PolyGalois(c, f, g) ==
    LET term(j) == [k \in 1..c.N |->
            LET e == (g * j) % (2 * c.N) IN
            IF e % c.N = k - 1
            THEN (IF e < c.N THEN f[j + 1] ELSE (c.T - f[j + 1]) % c.T)
            ELSE 0]
    IN [k \in 1..c.N |-> SumTo([j \in 0..(c.N - 1) |-> term(j)[k]], c.N) % c.T]

\* v followed by zeros up to length n
PadTo(v, n) == [i \in 1..n |-> IF i <= Len(v) THEN v[i] ELSE 0]

\* the number of leading values of v up to its last non-zero value
SigLen(v) ==
    IF \A i \in 1..Len(v) : v[i] = 0 THEN 0
    ELSE CHOOSE n \in 1..Len(v) : v[n] # 0 /\ \A i \in (n + 1)..Len(v) : v[i] = 0

-----------------------------------------------------------------------------
(* Backend memory.  A machine m is [heap, faults, oom]: the objects now    *)
(* allocated, the memory faults seen, and whether the next allocation      *)
(* fails.                                                                  *)

Machine(h, f, o) == [heap |-> h, faults |-> f, oom |-> o]

Live(m, h) == h \in DOMAIN m.heap

FreshHandle(m) ==
    CHOOSE h \in 1..(Cardinality(DOMAIN m.heap) + 1) : h \notin DOMAIN m.heap

Alloc(m, h, obj) == [m EXCEPT !.heap = m.heap @@ (h :> obj)]

Store(m, h, obj) == [m EXCEPT !.heap = [k \in DOMAIN m.heap |-> IF k = h THEN obj ELSE m.heap[k]]]

Fault(m, f) == [m EXCEPT !.faults = m.faults \cup {f}]

\* the backend's *_Destroy: frees the object; freeing what is not allocated is a fault
Destroy(m, h) ==
    IF Live(m, h)
    THEN [m EXCEPT !.heap = [k \in DOMAIN m.heap \ {h} |-> m.heap[k]]]
    ELSE Fault(m, "double_release")

\* every handle a backend call is given must be allocated
Touch(m, hs) ==
    IF \A h \in hs : Live(m, h) THEN m ELSE Fault(m, "use_after_release")

EmptyPlaintext == [kind |-> "Plaintext", poly |-> <<>>, is_ntt |-> FALSE, chain_level |-> 0]

EmptyCiphertext ==
    [kind |-> "Ciphertext", poly |-> <<>>, size |-> 0, is_ntt |-> FALSE,
     chain_level |-> 0, ctx |-> Null]

\* Plaintext::new(): a fresh backend plaintext, or an error and nothing allocated
Plaintext_new(m) ==
    IF m.oom THEN [m |-> m, res |-> Err("OutOfMemory")]
    ELSE LET h == FreshHandle(m) IN [m |-> Alloc(m, h, EmptyPlaintext), res |-> Ok(h)]

\* Ciphertext::new(): a fresh backend ciphertext, or an error and nothing allocated
Ciphertext_new(m) ==
    IF m.oom THEN [m |-> m, res |-> Err("OutOfMemory")]
    ELSE LET h == FreshHandle(m) IN [m |-> Alloc(m, h, EmptyCiphertext), res |-> Ok(h)]

\* Drop for Plaintext and for Ciphertext: one release of the owned handle
Drop_Plaintext(m, h) == Destroy(m, h)
Drop_Ciphertext(m, h) == Destroy(m, h)

-----------------------------------------------------------------------------
(* The backend's BatchEncoder.                                             *)

BatchEncoder_Create(m, c) ==
    IF batching_enabled(c)
    THEN LET h == FreshHandle(m) IN
         [m |-> Alloc(m, h, [kind |-> "BatchEncoder", ctx |-> c]), status |-> E_OK, handle |-> h]
    ELSE [m |-> m, status |-> "BatchingNotSupported", handle |-> Null]

BatchEncoder_Destroy(m, h) == [m |-> Destroy(m, h), status |-> E_OK]

BatchEncoder_GetSlotCount(m, h) ==
    IF Live(m, h) THEN [m |-> m, status |-> E_OK, count |-> m.heap[h].ctx.N]
    ELSE [m |-> Touch(m, {h}), status |-> "E_POINTER", count |-> 0]

\* the unsigned domain is [0, T)
InUnsignedDomain(c, v) == v >= 0 /\ v < c.T
\* the signed domain is the centered range [-T/2, T/2)
InSignedDomain(c, v) == 2 * v >= 0 - c.T /\ 2 * v < c.T

Residue(c, v) == (v + c.T) % c.T
Centered(c, r) == IF 2 * r < c.T THEN r ELSE r - c.T

InDomain(c, v, signed) == IF signed THEN InSignedDomain(c, v) ELSE InUnsignedDomain(c, v)

Encode(m, h, len, values, plain, signed) ==
    IF ~Live(m, h) \/ ~Live(m, plain)
    THEN [m |-> Touch(m, {h, plain}), status |-> "E_POINTER"]
    ELSE LET c == m.heap[h].ctx IN
         IF len > c.N \/ \E i \in 1..len : ~InDomain(c, values[i], signed)
         THEN [m |-> m, status |-> "InvalidArgument"]
         ELSE [m |-> Store(m, plain,
                        [kind |-> "Plaintext",
                         poly |-> Compose(c, PadTo([i \in 1..len |-> Residue(c, values[i])], c.N)),
                         is_ntt |-> FALSE, chain_level |-> c.K - 1]),
               status |-> E_OK]

BatchEncoder_Encode1(m, h, len, values, plain) == Encode(m, h, len, values, plain, FALSE)
BatchEncoder_Encode2(m, h, len, values, plain) == Encode(m, h, len, values, plain, TRUE)

\* the lengths the backend may report for a decoded plaintext: at least the
\* significant values; a length beyond the slot count is what the wrapper's
\* capacity check guards against
ReportedLengths(c, slots) == SigLen(slots)..(c.N + 1)

Decode(m, h, plain, size, signed) ==
    IF ~Live(m, h) \/ ~Live(m, plain)
    THEN [m |-> Touch(m, {h, plain}), status |-> "E_POINTER", size |-> 0, values |-> <<>>]
    ELSE LET c == m.heap[h].ctx
             pt == m.heap[plain]
         IN IF pt.is_ntt \/ Len(pt.poly) # c.N
            THEN [m |-> m, status |-> "InvalidOperation", size |-> 0, values |-> <<>>]
            ELSE [m |-> m, status |-> E_OK, size |-> size,
                  values |-> [i \in 1..c.N |->
                      IF signed THEN Centered(c, Slots(c, pt.poly)[i]) ELSE Slots(c, pt.poly)[i]]]

BatchEncoder_Decode1(m, h, plain, size) == Decode(m, h, plain, size, FALSE)
BatchEncoder_Decode2(m, h, plain, size) == Decode(m, h, plain, size, TRUE)

-----------------------------------------------------------------------------
(* BFVEncoder (encoder.rs).  Every method returns [m, res]: the machine    *)
(* after the call and the Result (or the panic) the caller gets.           *)

\* BFVEncoder::new without the check of the status
BFVEncoder_new_unchecked(m, c) ==
    LET r == BatchEncoder_Create(m, c) IN [m |-> r.m, res |-> Ok(r.handle)]

BFVEncoder_new(m, c) ==
    LET r == BatchEncoder_Create(m, c)
        e == convert_seal_error(r.status)
    IN IF IsErr(e) THEN [m |-> r.m, res |-> e]
       ELSE [m |-> r.m, res |-> Ok(r.handle)]

\* get_slot_count counting the slots of one row of the matrix
get_slot_count_of_a_row(m, self) ==
    LET r == BatchEncoder_GetSlotCount(m, self)
        e == convert_seal_error(r.status)
    IN IF IsErr(e) THEN [m |-> r.m, res |-> Panic("Internal error in BVTEncoder::get_slot_count().")]
       ELSE [m |-> r.m, res |-> Ok(r.count \div 2)]

get_slot_count(m, self) ==
    LET r == BatchEncoder_GetSlotCount(m, self)
        e == convert_seal_error(r.status)
    IN IF IsErr(e) THEN [m |-> r.m, res |-> Panic("Internal error in BVTEncoder::get_slot_count().")]
       ELSE [m |-> r.m, res |-> Ok(r.count)]

\* encode_unsigned without the check of the status
encode_unsigned_unchecked(m, self, values) ==
    LET n == Plaintext_new(m) IN
    IF IsErr(n.res) THEN n
    ELSE [m |-> BatchEncoder_Encode1(n.m, self, Len(values), values, n.res.val).m, res |-> Ok(n.res.val)]

encode_unsigned(m, self, values) ==
    LET n == Plaintext_new(m) IN
    IF IsErr(n.res) THEN n
    ELSE LET plaintext == n.res.val
             r == BatchEncoder_Encode1(n.m, self, Len(values), values, plaintext)
             e == convert_seal_error(r.status)
         IN IF IsErr(e) THEN [m |-> Drop_Plaintext(r.m, plaintext), res |-> e]
            ELSE [m |-> r.m, res |-> Ok(plaintext)]

encode_signed(m, self, values) ==
    LET n == Plaintext_new(m) IN
    IF IsErr(n.res) THEN n
    ELSE LET plaintext == n.res.val
             r == BatchEncoder_Encode2(n.m, self, Len(values), values, plaintext)
             e == convert_seal_error(r.status)
         IN IF IsErr(e) THEN [m |-> Drop_Plaintext(r.m, plaintext), res |-> e]
            ELSE [m |-> r.m, res |-> Ok(plaintext)]

\* the tail of decode_unsigned and decode_signed: the capacity check, then set_len
DecodeTail(capacity, r) ==
    LET e == convert_seal_error(r.status) IN
    IF IsErr(e) THEN [m |-> r.m, res |-> e]
    ELSE IF capacity < r.size
         THEN [m |-> r.m, res |-> Panic("Allocation overflow BVTEncoder::decode_unsigned")]
         ELSE [m |-> r.m, res |-> Ok(SubSeq(r.values, 1, r.size))]

decode_unsigned(m, self, plaintext, size) ==
    LET cap == get_slot_count(m, self) IN
    IF ~IsOk(cap.res) THEN cap
    ELSE DecodeTail(cap.res.val, BatchEncoder_Decode1(cap.m, self, plaintext, size))

\* decode_signed handing the plaintext to the unsigned decoder of the backend
decode_signed_as_unsigned(m, self, plaintext, size) ==
    LET cap == get_slot_count(m, self) IN
    IF ~IsOk(cap.res) THEN cap
    ELSE DecodeTail(cap.res.val, BatchEncoder_Decode1(cap.m, self, plaintext, size))

decode_signed(m, self, plaintext, size) ==
    LET cap == get_slot_count(m, self) IN
    IF ~IsOk(cap.res) THEN cap
    ELSE DecodeTail(cap.res.val, BatchEncoder_Decode2(cap.m, self, plaintext, size))

Drop_BFVEncoder(m, self) ==
    LET r == BatchEncoder_Destroy(m, self)
        e == convert_seal_error(r.status)
    IN IF IsErr(e) THEN [m |-> r.m, res |-> Panic("Internal error in BFVEncoder::drop.")]
       ELSE [m |-> r.m, res |-> Ok(Null)]

-----------------------------------------------------------------------------
(* The backend's Evaluator.  A call checks its operands, and only when     *)
(* every check passes writes its destination: a failing call leaves the    *)
(* destination as it was.                                                  *)

Obj(m, h) == IF Live(m, h) THEN m.heap[h] ELSE EmptyCiphertext
CtxOf(m, ev) == Obj(m, ev).ctx

\* the outcome of a backend call on the handles hs: err is the failed check
\* (E_OK if none), obj the object the call computes for dest
Outcome(m, hs, err, obj, dest) ==
    IF \E h \in hs \cup {dest} : ~Live(m, h)
    THEN [m |-> Touch(m, hs \cup {dest}), status |-> "E_POINTER"]
    ELSE IF err # E_OK THEN [m |-> m, status |-> err]
    ELSE [m |-> Store(m, dest, obj), status |-> E_OK]

Evaluator_Create(m, c) ==
    LET h == FreshHandle(m) IN
    [m |-> Alloc(m, h, [kind |-> "Evaluator", ctx |-> c]), status |-> E_OK, handle |-> h]

Evaluator_Destroy(m, h) == [m |-> Destroy(m, h), status |-> E_OK]

\* a ciphertext operand must belong to the evaluator's context
OperandError(c, A) == IF A.ctx # c THEN "InvalidOperation" ELSE E_OK

\* two operands must agree in context, NTT state and level
PairError(c, A, B) ==
    IF A.ctx # c \/ B.ctx # c \/ A.is_ntt # B.is_ntt \/ A.chain_level # B.chain_level
    THEN "InvalidOperation" ELSE E_OK

\* multiplication wants both operands in coefficient form
MulError(c, A, B) ==
    IF PairError(c, A, B) # E_OK \/ A.is_ntt \/ B.is_ntt THEN "InvalidOperation" ELSE E_OK

Max(a, b) == IF a >= b THEN a ELSE b
Abs(a) == IF a >= 0 THEN a ELSE 0 - a

Evaluator_Negate(m, ev, a, dest) ==
    LET c == CtxOf(m, ev)
        A == Obj(m, a)
    IN Outcome(m, {ev, a}, OperandError(c, A), [A EXCEPT !.poly = PolyNeg(c, A.poly)], dest)

Evaluator_Add(m, ev, a, b, dest) ==
    LET c == CtxOf(m, ev)
        A == Obj(m, a)
        B == Obj(m, b)
    IN Outcome(m, {ev, a, b}, PairError(c, A, B),
               [A EXCEPT !.poly = PolyAdd(c, A.poly, B.poly), !.size = Max(A.size, B.size)], dest)

Evaluator_Sub(m, ev, a, b, dest) ==
    LET c == CtxOf(m, ev)
        A == Obj(m, a)
        B == Obj(m, b)
    IN Outcome(m, {ev, a, b}, PairError(c, A, B),
               [A EXCEPT !.poly = PolySub(c, A.poly, B.poly), !.size = Max(A.size, B.size)], dest)

Evaluator_Multiply(m, ev, a, b, dest) ==
    LET c == CtxOf(m, ev)
        A == Obj(m, a)
        B == Obj(m, b)
    IN Outcome(m, {ev, a, b}, MulError(c, A, B),
               [A EXCEPT !.poly = PolyMul(c, A.poly, B.poly), !.size = A.size + B.size - 1], dest)

Evaluator_Square(m, ev, a, dest) ==
    LET c == CtxOf(m, ev)
        A == Obj(m, a)
    IN Outcome(m, {ev, a}, MulError(c, A, A),
               [A EXCEPT !.poly = PolyMul(c, A.poly, A.poly), !.size = 2 * A.size - 1], dest)

\* relinearization keys reduce a ciphertext of size k+1 with at least k-1 keys
KeyError(c, keys, size) ==
    IF keys.ctx # c THEN "InvalidOperation"
    ELSE IF keys.count < size - 2 THEN "KeyMismatch"
    ELSE E_OK

Evaluator_Relinearize(m, ev, a, keys, dest) ==
    LET c == CtxOf(m, ev)
        A == Obj(m, a)
        err == IF OperandError(c, A) # E_OK THEN OperandError(c, A) ELSE KeyError(c, keys, A.size)
    IN Outcome(m, {ev, a}, err, [A EXCEPT !.size = 2], dest)

Evaluator_ModSwitchToNext1(m, ev, a, dest) ==
    LET c == CtxOf(m, ev)
        A == Obj(m, a)
        err == IF A.ctx # c \/ A.chain_level = 0 THEN "InvalidOperation" ELSE E_OK
    IN Outcome(m, {ev, a}, err, [A EXCEPT !.chain_level = A.chain_level - 1], dest)

Evaluator_ModSwitchToNext2(m, ev, a, dest) ==
    LET c == CtxOf(m, ev)
        A == Obj(m, a)
        err == IF Len(A.poly) # c.N \/ A.chain_level = 0 THEN "InvalidOperation" ELSE E_OK
    IN Outcome(m, {ev, a}, err, [A EXCEPT !.chain_level = A.chain_level - 1], dest)

RECURSIVE PolyPow(_, _, _)
PolyPow(c, f, e) ==
    IF e = 0 THEN [j \in 1..c.N |-> IF j = 1 THEN 1 ELSE 0]
    ELSE PolyMul(c, f, PolyPow(c, f, e - 1))

\* every multiplication of the exponentiation is followed by a relinearization
Evaluator_Exponentiate(m, ev, a, exponent, keys, dest) ==
    LET c == CtxOf(m, ev)
        A == Obj(m, a)
        err == IF MulError(c, A, A) # E_OK THEN MulError(c, A, A)
               ELSE IF exponent >= 2 THEN KeyError(c, keys, 2 * A.size - 1)
               ELSE E_OK
    IN Outcome(m, {ev, a}, err,
               [A EXCEPT !.poly = PolyPow(c, A.poly, exponent),
                         !.size = IF exponent = 1 THEN A.size ELSE 2], dest)

\* a plaintext operand must be a ring element of the context in the NTT state of the ciphertext
PlainError(c, A, P) ==
    IF A.ctx # c \/ Len(P.poly) # c.N \/ A.is_ntt # P.is_ntt THEN "InvalidOperation" ELSE E_OK

Evaluator_AddPlain(m, ev, a, b, dest) ==
    LET c == CtxOf(m, ev)
        A == Obj(m, a)
        P == Obj(m, b)
    IN Outcome(m, {ev, a, b}, PlainError(c, A, P), [A EXCEPT !.poly = PolyAdd(c, A.poly, P.poly)], dest)

Evaluator_SubPlain(m, ev, a, b, dest) ==
    LET c == CtxOf(m, ev)
        A == Obj(m, a)
        P == Obj(m, b)
    IN Outcome(m, {ev, a, b}, PlainError(c, A, P), [A EXCEPT !.poly = PolySub(c, A.poly, P.poly)], dest)

Evaluator_MultiplyPlain(m, ev, a, b, dest) ==
    LET c == CtxOf(m, ev)
        A == Obj(m, a)
        P == Obj(m, b)
    IN Outcome(m, {ev, a, b}, PlainError(c, A, P), [A EXCEPT !.poly = PolyMul(c, A.poly, P.poly)], dest)

RECURSIVE FoldAdd(_, _, _)
FoldAdd(c, objs, n) ==
    IF n = 1 THEN objs[1]
    ELSE LET S == FoldAdd(c, objs, n - 1) IN
         [S EXCEPT !.poly = PolyAdd(c, S.poly, objs[n].poly), !.size = Max(S.size, objs[n].size)]

RECURSIVE FoldMul(_, _, _)
FoldMul(c, objs, n) ==
    IF n = 1 THEN objs[1]
    ELSE LET S == FoldMul(c, objs, n - 1) IN
         [S EXCEPT !.poly = PolyMul(c, S.poly, objs[n].poly), !.size = 2]

Evaluator_AddMany(m, ev, count, as, dest) ==
    LET c == CtxOf(m, ev)
        objs == [i \in 1..count |-> Obj(m, as[i])]
        err == IF count = 0 THEN "InvalidArgument"
               ELSE IF \E i \in 1..count : PairError(c, objs[1], objs[i]) # E_OK THEN "InvalidOperation"
               ELSE E_OK
    IN Outcome(m, {ev} \cup {as[i] : i \in 1..count}, err, FoldAdd(c, objs, count), dest)

Evaluator_MultiplyMany(m, ev, count, as, keys, dest) ==
    LET c == CtxOf(m, ev)
        objs == [i \in 1..count |-> Obj(m, as[i])]
        err == IF count = 0 THEN "InvalidArgument"
               ELSE IF \E i \in 1..count : MulError(c, objs[1], objs[i]) # E_OK THEN "InvalidOperation"
               ELSE IF count >= 2 /\ \E i, j \in 1..count :
                          i # j /\ KeyError(c, keys, objs[i].size + objs[j].size - 1) # E_OK
                    THEN (IF keys.ctx # c THEN "InvalidOperation" ELSE "KeyMismatch")
               ELSE E_OK
    IN Outcome(m, {ev} \cup {as[i] : i \in 1..count}, err, FoldMul(c, objs, count), dest)

\* the Galois element of a row rotation by steps: 3^steps, the exponent taken modulo N/2
RowElement(c, steps) ==
    LET half == c.N \div 2 IN ModPow(3, ((steps % half) + half) % half, 2 * c.N)
\* the Galois element of the column rotation: -1
ColumnElement(c) == 2 * c.N - 1

Evaluator_RotateRows(m, ev, a, steps, gk, dest) ==
    LET c == CtxOf(m, ev)
        A == Obj(m, a)
        err == IF A.ctx # c \/ gk.ctx # c \/ A.is_ntt THEN "InvalidOperation"
               ELSE IF Abs(steps) > (c.N \div 2) - 1 THEN "InvalidArgument"
               ELSE IF steps # 0 /\ steps \notin gk.steps THEN "KeyMismatch"
               ELSE E_OK
    IN Outcome(m, {ev, a}, err, [A EXCEPT !.poly = PolyGalois(c, A.poly, RowElement(c, steps))], dest)

Evaluator_RotateColumns(m, ev, a, gk, dest) ==
    LET c == CtxOf(m, ev)
        A == Obj(m, a)
        err == IF A.ctx # c \/ gk.ctx # c \/ A.is_ntt THEN "InvalidOperation"
               ELSE IF ~gk.columns THEN "KeyMismatch"
               ELSE E_OK
    IN Outcome(m, {ev, a}, err, [A EXCEPT !.poly = PolyGalois(c, A.poly, ColumnElement(c))], dest)

-----------------------------------------------------------------------------
(* Evaluator and BFVEvaluator (evaluator.rs).  Every method returns        *)
(* [m, res].  An out-of-place method allocates its destination first; the  *)
(* `?` after the backend call returns the error and drops the destination. *)

\* convert_seal_error(call)?; Ok(value) -- with the local dropped on the error path
Try(r, local, value) ==
    LET e == convert_seal_error(r.status) IN
    IF IsErr(e)
    THEN [m |-> (IF local = Null THEN r.m ELSE Drop_Ciphertext(r.m, local)), res |-> e]
    ELSE [m |-> r.m, res |-> Ok(value)]

Evaluator_new(m, c) ==
    LET r == Evaluator_Create(m, c)
        e == convert_seal_error(r.status)
    IN IF IsErr(e) THEN [m |-> r.m, res |-> e]
       ELSE [m |-> r.m, res |-> Ok(r.handle)]

BFVEvaluator_new(m, c) == Evaluator_new(m, c)

\* a drop that releases the handle a second time
Drop_Evaluator_twice(m, self) ==
    LET r == Evaluator_Destroy(Evaluator_Destroy(m, self).m, self)
        e == convert_seal_error(r.status)
    IN IF IsErr(e) THEN [m |-> r.m, res |-> Panic("Internal error in Evaluator::drop()")]
       ELSE [m |-> r.m, res |-> Ok(Null)]

Drop_Evaluator(m, self) ==
    LET r == Evaluator_Destroy(m, self)
        e == convert_seal_error(r.status)
    IN IF IsErr(e) THEN [m |-> r.m, res |-> Panic("Internal error in Evaluator::drop()")]
       ELSE [m |-> r.m, res |-> Ok(Null)]

\* negate_inplace making the backend call a second time
negate_inplace_twice(m, self, a) ==
    LET r == Try(Evaluator_Negate(m, self, a, a), Null, Null) IN
    IF IsErr(r.res) THEN r ELSE Try(Evaluator_Negate(r.m, self, a, a), Null, Null)

negate_inplace(m, self, a) == Try(Evaluator_Negate(m, self, a, a), Null, Null)

negate(m, self, a) ==
    LET n == Ciphertext_new(m) IN
    IF IsErr(n.res) THEN n
    ELSE Try(Evaluator_Negate(n.m, self, a, n.res.val), n.res.val, n.res.val)

\* add_inplace without the check of the status
add_inplace_unchecked(m, self, a, b) == [m |-> Evaluator_Add(m, self, a, b, a).m, res |-> Ok(Null)]

add_inplace(m, self, a, b) == Try(Evaluator_Add(m, self, a, b, a), Null, Null)

\* add calling the subtraction of the backend
add_as_sub(m, self, a, b) ==
    LET n == Ciphertext_new(m) IN
    IF IsErr(n.res) THEN n
    ELSE Try(Evaluator_Sub(n.m, self, a, b, n.res.val), n.res.val, n.res.val)

\* add handing b to the backend as the destination
add_into_b(m, self, a, b) ==
    LET n == Ciphertext_new(m) IN
    IF IsErr(n.res) THEN n
    ELSE Try(Evaluator_Add(n.m, self, a, b, b), n.res.val, n.res.val)

add(m, self, a, b) ==
    LET n == Ciphertext_new(m) IN
    IF IsErr(n.res) THEN n
    ELSE Try(Evaluator_Add(n.m, self, a, b, n.res.val), n.res.val, n.res.val)

\* add_many passing a count of at most one
add_many_of_the_first(m, self, as) ==
    LET n == Ciphertext_new(m) IN
    IF IsErr(n.res) THEN n
    ELSE Try(Evaluator_AddMany(n.m, self, IF Len(as) > 1 THEN 1 ELSE Len(as), as, n.res.val),
             n.res.val, n.res.val)

add_many(m, self, as) ==
    LET n == Ciphertext_new(m) IN
    IF IsErr(n.res) THEN n
    ELSE Try(Evaluator_AddMany(n.m, self, Len(as), as, n.res.val), n.res.val, n.res.val)

\* multiply_many calling the backend's reduction by addition
multiply_many_by_add_many(m, self, as, keys) ==
    LET n == Ciphertext_new(m) IN
    IF IsErr(n.res) THEN n
    ELSE Try(Evaluator_AddMany(n.m, self, Len(as), as, n.res.val), n.res.val, n.res.val)

multiply_many(m, self, as, keys) ==
    LET n == Ciphertext_new(m) IN
    IF IsErr(n.res) THEN n
    ELSE Try(Evaluator_MultiplyMany(n.m, self, Len(as), as, keys, n.res.val), n.res.val, n.res.val)

\* sub_inplace with the operands the other way round
sub_inplace_swapped(m, self, a, b) == Try(Evaluator_Sub(m, self, b, a, a), Null, Null)

sub_inplace(m, self, a, b) == Try(Evaluator_Sub(m, self, a, b, a), Null, Null)

\* sub leaving b out: the backend negates a
sub_without_b(m, self, a, b) ==
    LET n == Ciphertext_new(m) IN
    IF IsErr(n.res) THEN n
    ELSE Try(Evaluator_Negate(n.m, self, a, n.res.val), n.res.val, n.res.val)

sub(m, self, a, b) ==
    LET n == Ciphertext_new(m) IN
    IF IsErr(n.res) THEN n
    ELSE Try(Evaluator_Sub(n.m, self, a, b, n.res.val), n.res.val, n.res.val)

\* multiply_inplace handing b to the backend as both operands
multiply_inplace_b_twice(m, self, a, b) == Try(Evaluator_Multiply(m, self, b, b, a), Null, Null)

multiply_inplace(m, self, a, b) == Try(Evaluator_Multiply(m, self, a, b, a), Null, Null)

\* multiply handing a to the backend as both operands
multiply_a_twice(m, self, a, b) ==
    LET n == Ciphertext_new(m) IN
    IF IsErr(n.res) THEN n
    ELSE Try(Evaluator_Multiply(n.m, self, a, a, n.res.val), n.res.val, n.res.val)

multiply(m, self, a, b) ==
    LET n == Ciphertext_new(m) IN
    IF IsErr(n.res) THEN n
    ELSE Try(Evaluator_Multiply(n.m, self, a, b, n.res.val), n.res.val, n.res.val)

square_inplace(m, self, a) == Try(Evaluator_Square(m, self, a, a), Null, Null)

\* square calling the backend's addition of a to itself
square_by_add(m, self, a) ==
    LET n == Ciphertext_new(m) IN
    IF IsErr(n.res) THEN n
    ELSE Try(Evaluator_Add(n.m, self, a, a, n.res.val), n.res.val, n.res.val)

square(m, self, a) ==
    LET n == Ciphertext_new(m) IN
    IF IsErr(n.res) THEN n
    ELSE Try(Evaluator_Square(n.m, self, a, n.res.val), n.res.val, n.res.val)

mod_switch_to_next(m, self, a) ==
    LET n == Ciphertext_new(m) IN
    IF IsErr(n.res) THEN n
    ELSE Try(Evaluator_ModSwitchToNext1(n.m, self, a, n.res.val), n.res.val, n.res.val)

\* mod_switch_to_next_inplace making the backend call a second time on success
mod_switch_to_next_inplace_twice(m, self, a) ==
    LET r == Try(Evaluator_ModSwitchToNext1(m, self, a, a), Null, Null) IN
    IF IsErr(r.res) \/ r.m.heap[a].chain_level = 0 THEN r
    ELSE Try(Evaluator_ModSwitchToNext1(r.m, self, a, a), Null, Null)

mod_switch_to_next_inplace(m, self, a) ==
    Try(Evaluator_ModSwitchToNext1(m, self, a, a), Null, Null)

mod_switch_to_next_plaintext(m, self, a) ==
    LET n == Plaintext_new(m) IN
    IF IsErr(n.res) THEN n
    ELSE Try(Evaluator_ModSwitchToNext2(n.m, self, a, n.res.val), n.res.val, n.res.val)

mod_switch_to_next_inplace_plaintext(m, self, a) ==
    Try(Evaluator_ModSwitchToNext2(m, self, a, a), Null, Null)

\* exponentiate calling the backend's square, whatever the exponent
exponentiate_by_square(m, self, a, exponent, keys) ==
    LET n == Ciphertext_new(m) IN
    IF IsErr(n.res) THEN n
    ELSE Try(Evaluator_Square(n.m, self, a, n.res.val), n.res.val, n.res.val)

exponentiate(m, self, a, exponent, keys) ==
    LET n == Ciphertext_new(m) IN
    IF IsErr(n.res) THEN n
    ELSE Try(Evaluator_Exponentiate(n.m, self, a, exponent, keys, n.res.val), n.res.val, n.res.val)

\* exponentiate_inplace as a square in place followed by a relinearization in place
exponentiate_inplace_in_steps(m, self, a, exponent, keys) ==
    IF exponent # 2 THEN Try(Evaluator_Exponentiate(m, self, a, exponent, keys, a), Null, Null)
    ELSE LET s == Try(Evaluator_Square(m, self, a, a), Null, Null) IN
         IF IsErr(s.res) THEN s
         ELSE Try(Evaluator_Relinearize(s.m, self, a, keys, a), Null, Null)

exponentiate_inplace(m, self, a, exponent, keys) ==
    Try(Evaluator_Exponentiate(m, self, a, exponent, keys, a), Null, Null)

add_plain(m, self, a, b) ==
    LET n == Ciphertext_new(m) IN
    IF IsErr(n.res) THEN n
    ELSE Try(Evaluator_AddPlain(n.m, self, a, b, n.res.val), n.res.val, n.res.val)

add_plain_inplace(m, self, a, b) == Try(Evaluator_AddPlain(m, self, a, b, a), Null, Null)

sub_plain(m, self, a, b) ==
    LET n == Ciphertext_new(m) IN
    IF IsErr(n.res) THEN n
    ELSE Try(Evaluator_SubPlain(n.m, self, a, b, n.res.val), n.res.val, n.res.val)

sub_plain_inplace(m, self, a, b) == Try(Evaluator_SubPlain(m, self, a, b, a), Null, Null)

\* multiply_plain calling the backend's addition of a plaintext
multiply_plain_by_add(m, self, a, b) ==
    LET n == Ciphertext_new(m) IN
    IF IsErr(n.res) THEN n
    ELSE Try(Evaluator_AddPlain(n.m, self, a, b, n.res.val), n.res.val, n.res.val)

multiply_plain(m, self, a, b) ==
    LET n == Ciphertext_new(m) IN
    IF IsErr(n.res) THEN n
    ELSE Try(Evaluator_MultiplyPlain(n.m, self, a, b, n.res.val), n.res.val, n.res.val)

multiply_plain_inplace(m, self, a, b) == Try(Evaluator_MultiplyPlain(m, self, a, b, a), Null, Null)

\* relinearize_inplace calling the backend's squaring
relinearize_inplace_by_square(m, self, a, keys) == Try(Evaluator_Square(m, self, a, a), Null, Null)

relinearize_inplace(m, self, a, keys) == Try(Evaluator_Relinearize(m, self, a, keys, a), Null, Null)

\* relinearize handing a to the backend as the destination
relinearize_into_a(m, self, a, keys) ==
    LET n == Ciphertext_new(m) IN
    IF IsErr(n.res) THEN n
    ELSE Try(Evaluator_Relinearize(n.m, self, a, keys, a), n.res.val, n.res.val)

relinearize(m, self, a, keys) ==
    LET n == Ciphertext_new(m) IN
    IF IsErr(n.res) THEN n
    ELSE Try(Evaluator_Relinearize(n.m, self, a, keys, n.res.val), n.res.val, n.res.val)

\* rotate_rows dropping the sign of steps
\* rotate_rows without the check of the status
rotate_rows_unchecked(m, self, a, steps, gk) ==
    LET n == Ciphertext_new(m) IN
    IF IsErr(n.res) THEN n
    ELSE [m |-> Evaluator_RotateRows(n.m, self, a, steps, gk, n.res.val).m, res |-> Ok(n.res.val)]

rotate_rows_unsigned(m, self, a, steps, gk) ==
    LET n == Ciphertext_new(m) IN
    IF IsErr(n.res) THEN n
    ELSE Try(Evaluator_RotateRows(n.m, self, a, Abs(steps), gk, n.res.val), n.res.val, n.res.val)

rotate_rows(m, self, a, steps, gk) ==
    LET n == Ciphertext_new(m) IN
    IF IsErr(n.res) THEN n
    ELSE Try(Evaluator_RotateRows(n.m, self, a, steps, gk, n.res.val), n.res.val, n.res.val)

\* rotate_rows_inplace rotating the other way
rotate_rows_inplace_reversed(m, self, a, steps, gk) ==
    Try(Evaluator_RotateRows(m, self, a, 0 - steps, gk, a), Null, Null)

rotate_rows_inplace(m, self, a, steps, gk) ==
    Try(Evaluator_RotateRows(m, self, a, steps, gk, a), Null, Null)

\* rotate_columns calling the backend's row rotation by one step
rotate_columns_by_rows(m, self, a, gk) ==
    LET n == Ciphertext_new(m) IN
    IF IsErr(n.res) THEN n
    ELSE Try(Evaluator_RotateRows(n.m, self, a, 1, gk, n.res.val), n.res.val, n.res.val)

rotate_columns(m, self, a, gk) ==
    LET n == Ciphertext_new(m) IN
    IF IsErr(n.res) THEN n
    ELSE Try(Evaluator_RotateColumns(n.m, self, a, gk, n.res.val), n.res.val, n.res.val)

rotate_columns_inplace(m, self, a, gk) ==
    Try(Evaluator_RotateColumns(m, self, a, gk, a), Null, Null)

-----------------------------------------------------------------------------
(* The external collaborators of the wrappers: encryption, decryption and  *)
(* key generation.                                                         *)

\* Encryptor::encrypt: a fresh ciphertext of size 2 at the top of the chain
Encrypt(m, c, plain) ==
    LET h == FreshHandle(m) IN
    [m |-> Alloc(m, h, [kind |-> "Ciphertext", poly |-> m.heap[plain].poly, size |-> 2,
                        is_ntt |-> FALSE, chain_level |-> c.K - 1, ctx |-> c]),
     handle |-> h]

\* Decryptor::decrypt: a fresh plaintext holding the ring element of the ciphertext
Decrypt(m, cipher) ==
    LET h == FreshHandle(m) IN
    [m |-> Alloc(m, h, [kind |-> "Plaintext", poly |-> m.heap[cipher].poly,
                        is_ntt |-> FALSE, chain_level |-> m.heap[cipher].chain_level]),
     handle |-> h]

-----------------------------------------------------------------------------
(* The harness: the contexts, keys and vectors the calls are made with.    *)

\* a context that supports batching (T = 1 mod 2N) and one that does not
Batching == [id |-> 1, N |-> 2, T |-> 5, K |-> 2]
NoBatching == [id |-> 1, N |-> 2, T |-> 7, K |-> 2]
\* a second Context instance
Foreign == [id |-> 2, N |-> 2, T |-> 5, K |-> 2]

Contexts == {Batching, NoBatching}

\* the vectors a and b the harness encodes
Inputs == {[a |-> <<1, 2>>, b |-> <<2, -1>>], [a |-> <<-2>>, b |-> <<1>>]}

\* the keys a call may be given: of the context with too few or enough keys, or of
\* the second Context instance
RelinKeys ==
    [ctx : {Batching}, count : 0..(MaxSize - 2)] \cup {[ctx |-> Foreign, count |-> MaxSize - 2]}
Exponents == 0..MaxExponent
\* the steps given to rotate_rows: the valid ones and two past each end
Steps(c) == (0 - (c.N \div 2) - 1)..((c.N \div 2) + 1)

\* Galois keys of the context: for no rotation at all, or for every row rotation
\* and the column rotation
GaloisKeys ==
    {[ctx |-> ctx, steps |-> {}, columns |-> FALSE],
     [ctx |-> ctx, steps |-> Steps(ctx) \ {0}, columns |-> TRUE]}

NoCall == [op |-> "none", kind |-> "none", res |-> Ok(Null), prev |-> Null, arg |-> Null]

NoDecode == [op |-> "none", res |-> Ok(<<>>), size |-> 0]

\* the threads of the caller, and a thread that is in no call
Threads == {"t1", "t2"}
Idle == [op |-> "idle", target |-> Null, borrow |-> "none", seen |-> Null]

M(oom) == Machine(heap, faults, oom)

EmptyHeap == [h \in {} |-> Null]

Init ==
    /\ ctx \in Contexts
    /\ phase = "new"
    /\ heap = EmptyHeap
    /\ faults = {}
    /\ encoder = Null
    /\ evaluator = Null
    /\ x = Null
    /\ y = Null
    /\ w = Null
    /\ out = Null
    /\ p = Null
    /\ data \in Inputs
    /\ decoded = NoDecode
    /\ last = NoCall
    /\ running = [t \in Threads |-> Idle]

\* what a call leaves behind: the machine and the record of the call
Returned(op, kind, prev, arg, r) ==
    /\ heap' = r.m.heap
    /\ faults' = r.m.faults
    /\ decoded' = NoDecode
    /\ last' = [op |-> op, kind |-> kind, res |-> r.res, prev |-> prev,
                arg |-> IF r.res = Err("OutOfMemory") THEN Null ELSE arg]

Call_BFVEncoder_new ==
    /\ phase = "new"
    /\ encoder = Null
    /\ LET r == BFVEncoder_new(M(FALSE), ctx) IN
       /\ Returned("BFVEncoder::new", "new", Null, Null, r)
       /\ encoder' = IF IsOk(r.res) THEN r.res.val ELSE Null
       /\ phase' = IF IsOk(r.res) THEN "new" ELSE "done"
    /\ UNCHANGED <<running, ctx, evaluator, x, y, w, out, p, data>>

Call_BFVEvaluator_new ==
    /\ phase = "new"
    /\ encoder # Null
    /\ evaluator = Null
    /\ LET r == BFVEvaluator_new(M(FALSE), ctx) IN
       /\ Returned("BFVEvaluator::new", "new", Null, Null, r)
       /\ evaluator' = IF IsOk(r.res) THEN r.res.val ELSE Null
       /\ phase' = IF IsOk(r.res) THEN "new" ELSE "done"
    /\ UNCHANGED <<running, ctx, encoder, x, y, w, out, p, data>>

\* the head of every evaluator test: encode a and b, encrypt them
Setup ==
    /\ phase = "new"
    /\ encoder # Null
    /\ evaluator # Null
    /\ LET a_p == encode_signed(M(FALSE), encoder, data.a)
           b_p == encode_signed(a_p.m, encoder, data.b)
           a_c == Encrypt(b_p.m, ctx, a_p.res.val)
           b_c == Encrypt(a_c.m, ctx, b_p.res.val)
           f_c == Encrypt(b_c.m, Foreign, b_p.res.val)
           m1 == Drop_Plaintext(f_c.m, a_p.res.val)
       IN /\ heap' = m1.heap
          /\ faults' = m1.faults
          /\ x' = a_c.handle
          /\ y' = b_c.handle
          /\ w' = f_c.handle
          /\ p' = b_p.res.val
    /\ phase' = "run"
    /\ UNCHANGED <<running, ctx, encoder, evaluator, out, data, decoded, last>>

\* A variable is bound to the object it is given, after its old object was
\* dropped. Handles are opaque and compared nowhere, so the model keeps naming
\* the variable's object by the handle the variable held.
Rebind(m, var, h) ==
    IF Live(m, var) \/ ~Live(m, h) THEN Fault(m, "rebind")
    ELSE [m EXCEPT !.heap = [k \in (DOMAIN m.heap \ {h}) \cup {var} |->
                                IF k = var THEN m.heap[h] ELSE m.heap[k]]]

\* the harness makes its next call once it has looked at the last one
Ready == phase = "run" /\ out = Null /\ last = NoCall

Continue ==
    /\ phase = "run"
    /\ out = Null
    /\ last # NoCall
    /\ last' = NoCall
    /\ decoded' = NoDecode
    /\ UNCHANGED <<running, ctx, phase, heap, faults, encoder, evaluator, x, y, w, out, p, data>>

\* an in-place call on the ciphertext x
InPlace(op, arg, r) ==
    /\ Returned(op, "inplace", heap[x], arg, r)
    /\ UNCHANGED <<running, ctx, phase, encoder, evaluator, x, y, w, out, p, data>>

\* an out-of-place call: the caller holds the returned ciphertext in out
Fresh(op, arg, r) ==
    /\ Returned(op, "fresh", Null, arg, r)
    /\ out' = IF IsOk(r.res) THEN r.res.val ELSE Null
    /\ UNCHANGED <<running, ctx, phase, encoder, evaluator, x, y, w, p, data>>

Call_negate_inplace == Ready /\ InPlace("negate", Null, negate_inplace(M(FALSE), evaluator, x))
Call_negate == Ready /\ \E oom \in BOOLEAN : Fresh("negate", Null, negate(M(oom), evaluator, x))

Call_add_inplace ==
    Ready /\ \E b \in {y, w} : InPlace("add", b, add_inplace(M(FALSE), evaluator, x, b))
Call_add ==
    Ready /\ \E b \in {y, w}, oom \in BOOLEAN : Fresh("add", b, add(M(oom), evaluator, x, b))

Call_sub_inplace ==
    Ready /\ \E b \in {y, w} : InPlace("sub", b, sub_inplace(M(FALSE), evaluator, x, b))
Call_sub ==
    Ready /\ \E b \in {y, w}, oom \in BOOLEAN : Fresh("sub", b, sub(M(oom), evaluator, x, b))

\* the model lets a multiplication grow a ciphertext up to MaxSize
MayMultiply(a, b) == heap[a].size + heap[b].size - 1 <= MaxSize

Call_multiply_inplace ==
    Ready /\ \E b \in {y, w} :
        MayMultiply(x, b) /\ InPlace("multiply", b, multiply_inplace(M(FALSE), evaluator, x, b))
Call_multiply ==
    Ready /\ \E b \in {y, w}, oom \in BOOLEAN :
        MayMultiply(x, b) /\ Fresh("multiply", b, multiply(M(oom), evaluator, x, b))

Call_square_inplace ==
    Ready /\ MayMultiply(x, x) /\ InPlace("square", Null, square_inplace(M(FALSE), evaluator, x))
Call_square ==
    Ready /\ MayMultiply(x, x) /\ \E oom \in BOOLEAN : Fresh("square", Null, square(M(oom), evaluator, x))

Call_mod_switch_to_next ==
    Ready /\ \E oom \in BOOLEAN :
        Fresh("mod_switch_to_next", Null, mod_switch_to_next(M(oom), evaluator, x))
Call_mod_switch_to_next_inplace ==
    Ready /\ InPlace("mod_switch_to_next", Null, mod_switch_to_next_inplace(M(FALSE), evaluator, x))

\* the plaintext variants act on the plaintext p; the caller keeps the result in p
Call_mod_switch_to_next_plaintext ==
    /\ Ready
    /\ \E oom \in BOOLEAN :
        LET r == mod_switch_to_next_plaintext(M(oom), evaluator, p)
            m1 == IF IsOk(r.res) THEN Rebind(Drop_Plaintext(r.m, p), p, r.res.val) ELSE r.m
        IN Returned("mod_switch_to_next_plaintext", "fresh_plain", heap[p], Null, [m |-> m1, res |-> r.res])
    /\ UNCHANGED <<running, ctx, phase, encoder, evaluator, x, y, w, out, p, data>>
Call_mod_switch_to_next_inplace_plaintext ==
    /\ Ready
    /\ Returned("mod_switch_to_next_plaintext", "inplace_plain", heap[p], Null,
                mod_switch_to_next_inplace_plaintext(M(FALSE), evaluator, p))
    /\ UNCHANGED <<running, ctx, phase, encoder, evaluator, x, y, w, out, p, data>>

Call_exponentiate ==
    Ready /\ \E e \in Exponents, keys \in RelinKeys, oom \in BOOLEAN :
        Fresh("exponentiate", [exponent |-> e, keys |-> keys], exponentiate(M(oom), evaluator, x, e, keys))
Call_exponentiate_inplace ==
    Ready /\ \E e \in Exponents, keys \in RelinKeys :
        InPlace("exponentiate", [exponent |-> e, keys |-> keys],
                exponentiate_inplace(M(FALSE), evaluator, x, e, keys))

Call_add_plain ==
    Ready /\ \E oom \in BOOLEAN : Fresh("add_plain", Null, add_plain(M(oom), evaluator, x, p))
Call_add_plain_inplace ==
    Ready /\ InPlace("add_plain", Null, add_plain_inplace(M(FALSE), evaluator, x, p))
Call_sub_plain ==
    Ready /\ \E oom \in BOOLEAN : Fresh("sub_plain", Null, sub_plain(M(oom), evaluator, x, p))
Call_sub_plain_inplace ==
    Ready /\ InPlace("sub_plain", Null, sub_plain_inplace(M(FALSE), evaluator, x, p))
Call_multiply_plain ==
    Ready /\ \E oom \in BOOLEAN : Fresh("multiply_plain", Null, multiply_plain(M(oom), evaluator, x, p))
Call_multiply_plain_inplace ==
    Ready /\ InPlace("multiply_plain", Null, multiply_plain_inplace(M(FALSE), evaluator, x, p))

Call_relinearize ==
    Ready /\ \E keys \in RelinKeys, oom \in BOOLEAN :
        Fresh("relinearize", [keys |-> keys], relinearize(M(oom), evaluator, x, keys))
Call_relinearize_inplace ==
    Ready /\ \E keys \in RelinKeys :
        InPlace("relinearize", [keys |-> keys], relinearize_inplace(M(FALSE), evaluator, x, keys))

Call_rotate_rows ==
    Ready /\ \E steps \in Steps(ctx), gk \in GaloisKeys, oom \in BOOLEAN :
        Fresh("rotate_rows", [steps |-> steps, keys |-> gk], rotate_rows(M(oom), evaluator, x, steps, gk))
Call_rotate_rows_inplace ==
    Ready /\ \E steps \in Steps(ctx), gk \in GaloisKeys :
        InPlace("rotate_rows", [steps |-> steps, keys |-> gk],
                rotate_rows_inplace(M(FALSE), evaluator, x, steps, gk))
Call_rotate_columns ==
    Ready /\ \E gk \in GaloisKeys, oom \in BOOLEAN :
        Fresh("rotate_columns", [keys |-> gk], rotate_columns(M(oom), evaluator, x, gk))
Call_rotate_columns_inplace ==
    Ready /\ \E gk \in GaloisKeys :
        InPlace("rotate_columns", [keys |-> gk], rotate_columns_inplace(M(FALSE), evaluator, x, gk))

\* the lists of ciphertexts given to add_many and multiply_many
RECURSIVE ListsOf(_, _)
ListsOf(S, n) ==
    IF n = 0 THEN {<<>>}
    ELSE LET L == ListsOf(S, n - 1) IN L \cup {Append(l, e) : l \in {k \in L : Len(k) = n - 1}, e \in S}

Call_add_many ==
    Ready /\ \E as \in ListsOf({x, y}, MaxList), oom \in BOOLEAN :
        Fresh("add_many", as, add_many(M(oom), evaluator, as))
Call_multiply_many ==
    Ready /\ \E as \in ListsOf({x, y}, MaxList), keys \in RelinKeys, oom \in BOOLEAN :
        /\ \A i, j \in 1..Len(as) : i # j => MayMultiply(as[i], as[j])
        /\ Fresh("multiply_many", [list |-> as, keys |-> keys], multiply_many(M(oom), evaluator, as, keys))

\* let a_c = <the returned ciphertext>: the old a_c is dropped
Take ==
    /\ phase = "run"
    /\ out # Null
    /\ LET m1 == Rebind(Drop_Ciphertext(M(FALSE), x), x, out) IN
       /\ heap' = m1.heap
       /\ faults' = m1.faults
    /\ out' = Null
    /\ decoded' = NoDecode
    /\ last' = NoCall
    /\ UNCHANGED <<running, ctx, phase, encoder, evaluator, x, y, w, p, data>>

\* the returned ciphertext goes out of scope
Drop_out ==
    /\ phase = "run"
    /\ out # Null
    /\ LET m1 == Drop_Ciphertext(M(FALSE), out) IN
       /\ heap' = m1.heap
       /\ faults' = m1.faults
    /\ out' = Null
    /\ decoded' = NoDecode
    /\ last' = NoCall
    /\ UNCHANGED <<running, ctx, phase, encoder, evaluator, x, y, w, p, data>>

\* the tail of every evaluator test: decrypt the result and decode it
Observed == IF out # Null THEN out ELSE x

Call_decrypt_decode_signed ==
    /\ phase = "run"
    /\ decoded = NoDecode
    /\ last.kind \in {"fresh", "inplace"}
    /\ IsOk(last.res)
    /\ \E size \in ReportedLengths(ctx, Slots(ctx, heap[Observed].poly)) :
        LET c_p == Decrypt(M(FALSE), Observed)
            r == decode_signed(c_p.m, encoder, c_p.handle, size)
            m1 == Drop_Plaintext(r.m, c_p.handle)
        IN /\ heap' = IF r.res.tag = "Panic" THEN r.m.heap ELSE m1.heap
           /\ faults' = m1.faults
           /\ decoded' = [op |-> "decode_signed", res |-> r.res, size |-> size]
           /\ phase' = IF r.res.tag = "Panic" THEN "aborted" ELSE phase
    /\ UNCHANGED <<running, ctx, encoder, evaluator, x, y, w, out, p, data, last>>

\* the end of the test: the ciphertexts and the plaintext go out of scope
Drop_locals ==
    /\ phase = "run"
    /\ LET m1 == Drop_Ciphertext(M(FALSE), x)
           m2 == Drop_Ciphertext(m1, y)
           m3 == Drop_Ciphertext(m2, w)
           m4 == Drop_Plaintext(m3, p)
           m5 == IF out # Null THEN Drop_Ciphertext(m4, out) ELSE m4
       IN /\ heap' = m5.heap
          /\ faults' = m5.faults
    /\ x' = Null
    /\ y' = Null
    /\ w' = Null
    /\ p' = Null
    /\ out' = Null
    /\ decoded' = NoDecode
    /\ last' = NoCall
    /\ phase' = "teardown"
    /\ UNCHANGED <<running, ctx, encoder, evaluator, data>>

Call_Drop_Evaluator ==
    /\ phase = "teardown"
    /\ evaluator # Null
    /\ LET r == Drop_Evaluator(M(FALSE), evaluator) IN
       /\ Returned("Evaluator::drop", "drop", Null, Null, r)
       /\ phase' = IF r.res.tag = "Panic" THEN "aborted" ELSE phase
    /\ evaluator' = Null
    /\ UNCHANGED <<running, ctx, encoder, x, y, w, out, p, data>>

Call_Drop_BFVEncoder ==
    /\ phase = "teardown"
    /\ encoder # Null
    /\ LET r == Drop_BFVEncoder(M(FALSE), encoder) IN
       /\ Returned("BFVEncoder::drop", "drop", Null, Null, r)
       /\ phase' = IF r.res.tag = "Panic" THEN "aborted" ELSE phase
    /\ encoder' = Null
    /\ UNCHANGED <<running, ctx, evaluator, x, y, w, out, p, data>>

Next ==
    \/ Call_BFVEncoder_new
    \/ Call_BFVEvaluator_new
    \/ Setup
    \/ Call_negate_inplace
    \/ Call_negate
    \/ Call_add_inplace
    \/ Call_add
    \/ Call_add_many
    \/ Call_multiply_many
    \/ Call_sub_inplace
    \/ Call_sub
    \/ Call_multiply_inplace
    \/ Call_multiply
    \/ Call_square_inplace
    \/ Call_square
    \/ Call_mod_switch_to_next
    \/ Call_mod_switch_to_next_inplace
    \/ Call_mod_switch_to_next_plaintext
    \/ Call_mod_switch_to_next_inplace_plaintext
    \/ Call_exponentiate
    \/ Call_exponentiate_inplace
    \/ Call_add_plain
    \/ Call_add_plain_inplace
    \/ Call_sub_plain
    \/ Call_sub_plain_inplace
    \/ Call_multiply_plain
    \/ Call_multiply_plain_inplace
    \/ Call_relinearize_inplace
    \/ Call_relinearize
    \/ Call_rotate_rows
    \/ Call_rotate_rows_inplace
    \/ Call_rotate_columns
    \/ Call_rotate_columns_inplace
    \/ Continue
    \/ Take
    \/ Drop_out
    \/ Call_decrypt_decode_signed
    \/ Drop_locals
    \/ Call_Drop_Evaluator
    \/ Call_Drop_BFVEncoder

Spec == Init /\ [][Next]_vars

-----------------------------------------------------------------------------
(* The encoder on its own: one vector is encoded, the plaintext decoded.   *)

\* a batching context with two rows of two slots
Batching4 == [id |-> 1, N |-> 4, T |-> 17, K |-> 2]

EncoderContexts == {Batching, Batching4, NoBatching}

\* the values a vector is made of: for the small context the two domains and one
\* value past each end, for the larger one the ends of the two domains
Values(c) ==
    IF c.N <= 2 THEN (0 - ((c.T + 1) \div 2))..c.T
    ELSE {0 - (c.T \div 2), 0, 3, c.T - 1}

\* the vectors given to encode: every length up to one past the slot count
Vectors(c) == UNION {[1..n -> Values(c)] : n \in 0..(c.N + 1)}

InitEncoder ==
    /\ ctx \in EncoderContexts
    /\ phase = "new"
    /\ heap = EmptyHeap
    /\ faults = {}
    /\ encoder = Null
    /\ evaluator = Null
    /\ x = Null
    /\ y = Null
    /\ w = Null
    /\ out = Null
    /\ p = Null
    /\ data \in [a : Vectors(ctx), b : {<<>>}]
    /\ decoded = NoDecode
    /\ last = NoCall
    /\ running = [t \in Threads |-> Idle]

Call_get_slot_count ==
    /\ phase = "new"
    /\ encoder # Null
    /\ last.op # "get_slot_count"
    /\ LET r == get_slot_count(M(FALSE), encoder) IN
       /\ Returned("get_slot_count", "query", heap, Null, r)
       /\ phase' = IF r.res.tag = "Panic" THEN "aborted" ELSE phase
    /\ UNCHANGED <<running, ctx, encoder, evaluator, x, y, w, out, p, data>>

\* an encode call: the caller holds the returned plaintext in p
Encoded(op, r) ==
    /\ Returned(op, "encode", Null, data.a, r)
    /\ p' = IF IsOk(r.res) THEN r.res.val ELSE Null
    /\ UNCHANGED <<running, ctx, phase, encoder, evaluator, x, y, w, out, data>>

\* data: &[u64] holds no negative value
Call_encode_unsigned ==
    /\ phase = "new"
    /\ encoder # Null
    /\ p = Null
    /\ \A i \in 1..Len(data.a) : data.a[i] >= 0
    /\ \E oom \in BOOLEAN : Encoded("encode_unsigned", encode_unsigned(M(oom), encoder, data.a))

Call_encode_signed ==
    /\ phase = "new"
    /\ encoder # Null
    /\ p = Null
    /\ \E oom \in BOOLEAN : Encoded("encode_signed", encode_signed(M(oom), encoder, data.a))

\* a decode call on p; a panic ends the run
Decoded(op, r, size) ==
    /\ heap' = r.m.heap
    /\ faults' = r.m.faults
    /\ decoded' = [op |-> op, res |-> r.res, size |-> size]
    /\ phase' = IF r.res.tag = "Panic" THEN "aborted" ELSE phase
    /\ UNCHANGED <<running, ctx, encoder, evaluator, x, y, w, out, p, data, last>>

Call_decode_unsigned ==
    /\ phase = "new"
    /\ p # Null
    /\ decoded = NoDecode
    /\ \E size \in ReportedLengths(ctx, Slots(ctx, heap[p].poly)) :
        Decoded("decode_unsigned", decode_unsigned(M(FALSE), encoder, p, size), size)

Call_decode_signed ==
    /\ phase = "new"
    /\ p # Null
    /\ decoded = NoDecode
    /\ \E size \in ReportedLengths(ctx, Slots(ctx, heap[p].poly)) :
        Decoded("decode_signed", decode_signed(M(FALSE), encoder, p, size), size)

\* the plaintext, if one was made, goes out of scope
Drop_encoded ==
    /\ phase = "new"
    /\ encoder # Null
    /\ evaluator = Null
    /\ LET m1 == IF p # Null THEN Drop_Plaintext(M(FALSE), p) ELSE M(FALSE) IN
       /\ heap' = m1.heap
       /\ faults' = m1.faults
    /\ p' = Null
    /\ decoded' = NoDecode
    /\ last' = NoCall
    /\ phase' = "teardown"
    /\ UNCHANGED <<running, ctx, encoder, evaluator, x, y, w, out, data>>

NextEncoder ==
    \/ Call_BFVEncoder_new
    \/ Call_get_slot_count
    \/ Call_encode_unsigned
    \/ Call_encode_signed
    \/ Call_decode_unsigned
    \/ Call_decode_signed
    \/ Drop_encoded
    \/ Call_Drop_BFVEncoder

SpecEncoder == InitEncoder /\ [][NextEncoder]_vars

-----------------------------------------------------------------------------
(* The evaluator's calls on operands of different sizes, representations   *)
(* and Context instances.                                                  *)

\* Evaluator::transform_to_ntt of the backend, which evaluator.rs does not wrap
\* yet: the caller is handed the ciphertext in NTT form
TransformToNtt(m, h) == Store(m, h, [m.heap[h] EXCEPT !.is_ntt = TRUE])

\* the operand x is in NTT form or not; the operand w is of a second Context
\* instance, in NTT form, or a product of size 3
Forms == [x_ntt : BOOLEAN, w : {"foreign", "ntt", "larger"}]
FormInputs == {[a |-> i.a, b |-> i.b, x_ntt |-> f.x_ntt, w |-> f.w] : i \in Inputs, f \in Forms}

InitForms ==
    /\ ctx = Batching
    /\ phase = "new"
    /\ heap = EmptyHeap
    /\ faults = {}
    /\ encoder = Null
    /\ evaluator = Null
    /\ x = Null
    /\ y = Null
    /\ w = Null
    /\ out = Null
    /\ p = Null
    /\ data \in FormInputs
    /\ decoded = NoDecode
    /\ last = NoCall
    /\ running = [t \in Threads |-> Idle]

\* encode a and b, encrypt them; w is b under the second Context instance, b in
\* NTT form, or the product b * b
SetupForms ==
    /\ phase = "new"
    /\ encoder # Null
    /\ evaluator # Null
    /\ LET a_p == encode_signed(M(FALSE), encoder, data.a)
           b_p == encode_signed(a_p.m, encoder, data.b)
           a_c == Encrypt(b_p.m, ctx, a_p.res.val)
           b_c == Encrypt(a_c.m, ctx, b_p.res.val)
           m1 == IF data.x_ntt THEN TransformToNtt(b_c.m, a_c.handle) ELSE b_c.m
           f_c == Encrypt(m1, Foreign, b_p.res.val)
           n_c == Encrypt(m1, ctx, b_p.res.val)
           s_c == multiply(m1, evaluator, b_c.handle, b_c.handle)
           m2 == CASE data.w = "foreign" -> f_c.m
                   [] data.w = "ntt" -> TransformToNtt(n_c.m, n_c.handle)
                   [] data.w = "larger" -> s_c.m
           m3 == Drop_Plaintext(m2, a_p.res.val)
       IN /\ heap' = m3.heap
          /\ faults' = m3.faults
          /\ x' = a_c.handle
          /\ y' = b_c.handle
          /\ w' = CASE data.w = "foreign" -> f_c.handle
                    [] data.w = "ntt" -> n_c.handle
                    [] data.w = "larger" -> s_c.res.val
          /\ p' = b_p.res.val
    /\ phase' = "run"
    /\ UNCHANGED <<running, ctx, encoder, evaluator, out, data, decoded, last>>

NextForms ==
    \/ Call_BFVEncoder_new
    \/ Call_BFVEvaluator_new
    \/ SetupForms
    \/ Continue
    \/ Call_negate_inplace
    \/ Call_negate
    \/ Call_add_inplace
    \/ Call_add
    \/ Call_sub_inplace
    \/ Call_sub
    \/ Call_multiply_inplace
    \/ Call_multiply
    \/ Call_square_inplace
    \/ Call_square
    \/ Take
    \/ Drop_out

SpecForms == InitForms /\ [][NextForms]_vars

-----------------------------------------------------------------------------
(* Modulus switching down a chain of three moduli.                         *)

\* a context whose coefficient modulus is a chain of three primes
Chain3 == [id |-> 1, N |-> 2, T |-> 5, K |-> 3]

InitChain ==
    /\ ctx = Chain3
    /\ phase = "new"
    /\ heap = EmptyHeap
    /\ faults = {}
    /\ encoder = Null
    /\ evaluator = Null
    /\ x = Null
    /\ y = Null
    /\ w = Null
    /\ out = Null
    /\ p = Null
    /\ data \in Inputs
    /\ decoded = NoDecode
    /\ last = NoCall
    /\ running = [t \in Threads |-> Idle]

NextChain ==
    \/ Call_BFVEncoder_new
    \/ Call_BFVEvaluator_new
    \/ Setup
    \/ Continue
    \/ Call_mod_switch_to_next
    \/ Call_mod_switch_to_next_inplace
    \/ Call_mod_switch_to_next_plaintext
    \/ Call_mod_switch_to_next_inplace_plaintext
    \/ Call_negate_inplace
    \/ Call_add_inplace
    \/ Take
    \/ Drop_out

SpecChain == InitChain /\ [][NextChain]_vars

-----------------------------------------------------------------------------
(* Rotations of the 2-by-(N/2) matrix of slots, for N = 8: rows of four    *)
(* slots, row rotations by -3..3.                                          *)

Batching8 == [id |-> 1, N |-> 8, T |-> 17, K |-> 2]

\* make_matrix: 1, -2 at the head of the first row, -1, 2 at the head of the
\* second; and a matrix of eight different values
Matrices ==
    {[a |-> <<1, -2, 0, 0, -1, 2, 0, 0>>, b |-> <<0, 1>>],
     [a |-> <<1, 2, 3, 4, 5, 6, 7, -8>>, b |-> <<0, 1>>]}

InitRotate ==
    /\ ctx = Batching8
    /\ phase = "new"
    /\ heap = EmptyHeap
    /\ faults = {}
    /\ encoder = Null
    /\ evaluator = Null
    /\ x = Null
    /\ y = Null
    /\ w = Null
    /\ out = Null
    /\ p = Null
    /\ data \in Matrices
    /\ decoded = NoDecode
    /\ last = NoCall
    /\ running = [t \in Threads |-> Idle]

NextRotate ==
    \/ Call_BFVEncoder_new
    \/ Call_BFVEvaluator_new
    \/ Setup
    \/ Continue
    \/ Call_rotate_rows
    \/ Call_rotate_rows_inplace
    \/ Call_rotate_columns
    \/ Call_rotate_columns_inplace
    \/ Take
    \/ Drop_out

SpecRotate == InitRotate /\ [][NextRotate]_vars

-----------------------------------------------------------------------------
(* Ciphertexts of different sizes: the second operand w is the product     *)
(* b * b, of size 3, and every operation of the evaluator is called.       *)

SizeInputs == {d \in FormInputs : d.w = "larger" /\ ~d.x_ntt}

InitSizes ==
    /\ ctx = Batching
    /\ phase = "new"
    /\ heap = EmptyHeap
    /\ faults = {}
    /\ encoder = Null
    /\ evaluator = Null
    /\ x = Null
    /\ y = Null
    /\ w = Null
    /\ out = Null
    /\ p = Null
    /\ data \in SizeInputs
    /\ decoded = NoDecode
    /\ last = NoCall
    /\ running = [t \in Threads |-> Idle]

NextSizes ==
    \/ Call_BFVEncoder_new
    \/ Call_BFVEvaluator_new
    \/ SetupForms
    \/ Continue
    \/ Call_negate_inplace
    \/ Call_negate
    \/ Call_add_inplace
    \/ Call_add
    \/ Call_add_many
    \/ Call_multiply_many
    \/ Call_sub_inplace
    \/ Call_sub
    \/ Call_multiply_inplace
    \/ Call_multiply
    \/ Call_square_inplace
    \/ Call_square
    \/ Call_mod_switch_to_next
    \/ Call_mod_switch_to_next_inplace
    \/ Call_exponentiate
    \/ Call_exponentiate_inplace
    \/ Call_add_plain
    \/ Call_add_plain_inplace
    \/ Call_sub_plain
    \/ Call_sub_plain_inplace
    \/ Call_multiply_plain
    \/ Call_multiply_plain_inplace
    \/ Call_relinearize_inplace
    \/ Call_relinearize
    \/ Call_rotate_rows
    \/ Call_rotate_rows_inplace
    \/ Call_rotate_columns
    \/ Call_rotate_columns_inplace
    \/ Take
    \/ Drop_out

SpecSizes == InitSizes /\ [][NextSizes]_vars

-----------------------------------------------------------------------------
(* Calls from two threads.  The borrow checker of the host language admits *)
(* a call when the borrows its signature takes are compatible with the     *)
(* borrows held by the calls in flight: any number of shared borrows of an *)
(* object, or one exclusive borrow.  A call reads its operand when it      *)
(* starts and writes its destination when it returns.                      *)

\* the calls the threads make
ThreadCalls ==
    {"negate_inplace", "negate", "mod_switch_to_next_inplace", "mod_switch_to_next_inplace_plaintext",
     "exponentiate_inplace", "rotate_rows_inplace", "rotate_columns_inplace", "decode_signed"}

\* the borrow the signature takes of the object: a: &mut Ciphertext is exclusive,
\* a: &Ciphertext, a: &Plaintext and plaintext: &Plaintext are shared
Borrow(op) == IF op = "negate_inplace" THEN "exclusive" ELSE "shared"

\* the calls that hand the handle of their argument to the backend as the destination
Writes(op) ==
    op \in {"negate_inplace", "mod_switch_to_next_inplace", "mod_switch_to_next_inplace_plaintext",
            "exponentiate_inplace", "rotate_rows_inplace", "rotate_columns_inplace"}

\* the object the call is made on: the ciphertext a_c or the plaintext b_p
Target(op) == IF op \in {"mod_switch_to_next_inplace_plaintext", "decode_signed"} THEN p ELSE x

\* what the borrow checker admits
Admits(t, op) ==
    \A u \in Threads \ {t} :
        running[u].target = Target(op) => (running[u].borrow = "shared" /\ Borrow(op) = "shared")

\* the call of thread t on the machine m
Apply(op, m) ==
    CASE op = "negate_inplace" -> negate_inplace(m, evaluator, x)
      [] op = "negate" ->
            LET r == negate(m, evaluator, x) IN
            IF IsOk(r.res) THEN [m |-> Drop_Ciphertext(r.m, r.res.val), res |-> Ok(Null)] ELSE r
      [] op = "mod_switch_to_next_inplace" -> mod_switch_to_next_inplace(m, evaluator, x)
      [] op = "mod_switch_to_next_inplace_plaintext" -> mod_switch_to_next_inplace_plaintext(m, evaluator, p)
      [] op = "exponentiate_inplace" ->
            exponentiate_inplace(m, evaluator, x, 2, [ctx |-> ctx, count |-> 1])
      [] op = "rotate_rows_inplace" ->
            rotate_rows_inplace(m, evaluator, x, 0, [ctx |-> ctx, steps |-> {-1, 1}, columns |-> TRUE])
      [] op = "rotate_columns_inplace" ->
            rotate_columns_inplace(m, evaluator, x, [ctx |-> ctx, steps |-> {-1, 1}, columns |-> TRUE])
      [] op = "decode_signed" ->
            LET r == decode_signed(m, encoder, p, ctx.N) IN [m |-> r.m, res |-> Ok(Null)]

\* thread t enters a call: the borrow is taken and the operand read
Begin(t, op) ==
    /\ phase = "run"
    /\ running[t] = Idle
    /\ Admits(t, op)
    /\ running' = [running EXCEPT ![t] =
            [op |-> op, target |-> Target(op), borrow |-> Borrow(op), seen |-> heap[Target(op)]]]
    /\ UNCHANGED <<ctx, phase, heap, faults, encoder, evaluator, x, y, w, out, p, data, decoded, last>>

\* the call of thread t returns: the destination is written from what the call
\* read, and the borrow ends
End(t) ==
    /\ phase = "run"
    /\ running[t] # Idle
    /\ LET c == running[t]
           r == Apply(c.op, Store(M(FALSE), c.target, c.seen))
       IN /\ heap' = IF Writes(c.op) THEN [heap EXCEPT ![c.target] = r.m.heap[c.target]] ELSE heap
          /\ faults' = r.m.faults
    /\ running' = [running EXCEPT ![t] = Idle]
    /\ UNCHANGED <<ctx, phase, encoder, evaluator, x, y, w, out, p, data, decoded, last>>

NextThreads ==
    \/ Call_BFVEncoder_new
    \/ Call_BFVEvaluator_new
    \/ Setup
    \/ \E t \in Threads, op \in ThreadCalls : Begin(t, op)
    \/ \E t \in Threads : End(t)

SpecThreads == Init /\ [][NextThreads]_vars

-----------------------------------------------------------------------------
(* Properties.                                                             *)

\* v[i], and 0 past the end of v
At(v, i) == IF i <= Len(v) THEN v[i] ELSE 0

\* u and v are the same vector but for trailing zeros
EqualUpToZeros(u, v) == \A i \in 1..Max(Len(u), Len(v)) : At(u, i) = At(v, i)

\* the ciphertext the last call was made on, as it was before the call
Left == IF last.kind = "inplace" THEN last.prev ELSE heap[x]
\* the ciphertext the last call produced
Result == IF last.kind = "inplace" THEN heap[x] ELSE heap[out]
\* the machine before the last call
Before == Store(Machine(heap, faults, FALSE), x, Left)

\* the slot values a ciphertext decrypts to
SlotsOf(obj) == Slots(ctx, obj.poly)
\* the ciphertext encrypts the vector v
Encrypts(obj, v) == SlotsOf(obj) = [i \in 1..ctx.N |-> Residue(ctx, At(v, i))]

\* C1: for every vector v of at most N values of the domain, decode(encode(v))
\* is v up to trailing zero slots (the decoded vector may be cut after its last
\* non-zero value or padded with zeros), for the unsigned pair of methods and
\* for the signed pair.
C1_RoundTrip ==
    /\ (/\ last.op = "encode_unsigned" /\ IsOk(last.res)
        /\ decoded.op = "decode_unsigned" /\ IsOk(decoded.res))
          => EqualUpToZeros(decoded.res.val, data.a)
    /\ (/\ last.op = "encode_signed" /\ IsOk(last.res)
        /\ decoded.op = "decode_signed" /\ IsOk(decoded.res))
          => EqualUpToZeros(decoded.res.val, data.a)

\* a signed vector with a negative value and a trailing zero came back truncated
C1_Witness ==
    /\ last.op = "encode_signed" /\ IsOk(last.res)
    /\ decoded.op = "decode_signed" /\ IsOk(decoded.res)
    /\ ctx.N = 4
    /\ \E i \in 1..Len(data.a) : data.a[i] < 0
    /\ Len(decoded.res.val) < Len(data.a)

\* an add call that succeeded and whose result was decrypted and decoded
AddDecoded ==
    /\ last.op = "add" /\ IsOk(last.res)
    /\ decoded.op = "decode_signed" /\ IsOk(decoded.res)

\* C2 (as amended): decrypting and decoding add(A, B) gives a vector of at most N
\* values that is, up to trailing zero slots, the slot-wise sum modulo T of the
\* vectors A and B encrypt.
C2_AdditiveHomomorphism ==
    AddDecoded =>
        /\ Len(decoded.res.val) <= ctx.N
        /\ \A i \in 1..ctx.N :
              Residue(ctx, At(decoded.res.val, i))
                  = (SlotsOf(Left)[i] + SlotsOf(heap[last.arg])[i]) % ctx.T

\* the sum of a and b, both shorter than N, came back with N values
C2_Witness ==
    /\ AddDecoded
    /\ Encrypts(Left, data.a) /\ last.arg = y
    /\ Len(data.a) < ctx.N
    /\ Len(decoded.res.val) = ctx.N
    /\ \E i \in 1..ctx.N : At(decoded.res.val, i) # 0

\* C2 (as stated): decrypting and decoding add(enc(a), enc(b)) gives a vector of
\* the same length as a whose slot i is a[i] + b[i] modulo T.
C2_SameLength ==
    (AddDecoded /\ Encrypts(Left, data.a) /\ last.arg = y) =>
        /\ Len(decoded.res.val) = Len(data.a)
        /\ \A i \in 1..Len(data.a) :
              Residue(ctx, At(decoded.res.val, i)) = Residue(ctx, At(data.a, i) + At(data.b, i)) % ctx.T

\* C3: multiply(A, B) decrypts to the slot-wise product modulo T of what A and B
\* decrypt to, and square(A) gives the ciphertext multiply(A, A) gives.
C3_MultiplicativeHomomorphism ==
    /\ (last.op = "multiply" /\ IsOk(last.res)) =>
          \A i \in 1..ctx.N :
              SlotsOf(Result)[i] = (SlotsOf(Left)[i] * SlotsOf(heap[last.arg])[i]) % ctx.T
    /\ (last.op = "square" /\ IsOk(last.res)) =>
          LET r == multiply(Before, evaluator, x, x) IN
          IsOk(r.res) /\ r.m.heap[r.res.val] = Result

\* a product of two different vectors with a non-zero slot
C3_Witness ==
    /\ last.op = "multiply" /\ IsOk(last.res)
    /\ SlotsOf(Left) # SlotsOf(heap[last.arg])
    /\ \E i \in 1..ctx.N : SlotsOf(Result)[i] # 0

\* C4: the size of multiply(A, B) is size(A) + size(B) - 1, and the size of
\* square(A) is 2 * size(A) - 1.
C4_SizeLaw ==
    /\ (last.op = "multiply" /\ IsOk(last.res)) =>
          Result.size = Left.size + heap[last.arg].size - 1
    /\ (last.op = "square" /\ IsOk(last.res)) =>
          Result.size = 2 * Left.size - 1

\* a ciphertext of size 3 multiplied in place by one of size 2
C4_Witness ==
    /\ last.op = "multiply" /\ last.kind = "inplace" /\ IsOk(last.res)
    /\ Left.size = 3
    /\ Result.size = 4

\* C5: a successful relinearize gives a ciphertext of size exactly 2 that
\* decrypts to what its argument decrypts to.
C5_Relinearize ==
    (last.op = "relinearize" /\ IsOk(last.res)) =>
        /\ Result.size = 2
        /\ Result.poly = Left.poly

\* a ciphertext of size 3 relinearized out of place
C5_Witness ==
    /\ last.op = "relinearize" /\ last.kind = "fresh" /\ IsOk(last.res)
    /\ Left.size = 3
    /\ \E i \in 1..ctx.N : SlotsOf(Result)[i] # 0

\* the handles the wrappers hold
Wrappers == <<encoder, evaluator, x, y, w, out, p>>
Held == {Wrappers[i] : i \in 1..Len(Wrappers)} \ {Null}

\* C6: every allocated handle is held by exactly one wrapper and every handle a
\* wrapper holds is allocated, after every call, successful or failed; no handle
\* is released twice or used after its release, and none is left when the
\* wrappers are gone.
C6_Ownership ==
    /\ faults = {}
    /\ phase # "aborted" => DOMAIN heap = Held
    /\ \A i, j \in 1..Len(Wrappers) :
          (i # j /\ Wrappers[i] # Null) => Wrappers[i] # Wrappers[j]

\* an out-of-place call failed after its destination was allocated
C6_Witness ==
    /\ last.kind = "fresh"
    /\ last.res = Err("InvalidOperation")
    /\ DOMAIN heap = Held
    /\ Cardinality(Held) = 6

\* C7: an in-place call that returns an error leaves its destination as it was.
C7_AllOrNothing ==
    /\ (last.kind = "inplace" /\ IsErr(last.res)) => heap[x] = last.prev
    /\ (last.kind = "inplace_plain" /\ IsErr(last.res)) => heap[p] = last.prev

\* exponentiate_inplace failed for want of relinearization keys
C7_Witness ==
    /\ last.op = "exponentiate" /\ last.kind = "inplace"
    /\ last.res = Err("KeyMismatch")
    /\ last.arg.exponent = 2

\* C8: while a call that writes a ciphertext or plaintext is in flight, no other
\* call on that object is in flight.
C8_ExclusiveWriters ==
    \A t, u \in Threads :
        (t # u /\ running[t] # Idle /\ Writes(running[t].op) /\ running[u] # Idle)
            => running[u].target # running[t].target

\* C9: when the backend reports more decoded values than the buffer holds,
\* decode returns the error AllocationOverflow and the program goes on.
C9_OverflowIsAnError ==
    (decoded.op # "none" /\ decoded.size > ctx.N) =>
        (decoded.res = Err("AllocationOverflow") /\ phase # "aborted")

Refused ==
    /\ last.res \in {Err("InvalidArgument"), Err("OutOfMemory")}
    /\ p = Null
    /\ DOMAIN heap = {encoder}

C12_SlotCount ==
    (last.op = "get_slot_count" /\ decoded = NoDecode) =>
        /\ last.res = Ok(ctx.N)
        /\ heap = last.prev
        /\ faults = {}
        /\ phase = "new"

\* the slot count was asked for while an encoded plaintext was held
C12_Witness ==
    /\ last.op = "get_slot_count"
    /\ last.res = Ok(ctx.N)
    /\ p # Null
    /\ ctx.N = 4

\* the second operand of the last call
Right == heap[last.arg]

C14_MismatchedOperands ==
    (/\ last.op \in {"add", "sub", "multiply"}
     /\ last.arg # Null
     /\ (Left.ctx # Right.ctx \/ Left.is_ntt # Right.is_ntt)) =>
        /\ last.res = Err("InvalidOperation")
        /\ heap[x] = Left
        /\ out = Null

\* an in-place add of a ciphertext in NTT form to one that is not
C14_Witness ==
    /\ last.op = "add" /\ last.kind = "inplace"
    /\ last.res = Err("InvalidOperation")
    /\ Left.ctx = Right.ctx
    /\ ~Left.is_ntt
    /\ Right.is_ntt

\* C15: multiply and square, in place or not, fail with InvalidOperation when
\* an operand is in NTT form; add succeeds on two operands of one context in
\* the same form, whichever it is; and the result of a successful call is in
\* the form of its operands.
C15_NttForm ==
    /\ (last.op = "multiply" /\ last.arg # Null /\ (Left.is_ntt \/ Right.is_ntt)) =>
          last.res = Err("InvalidOperation")
    /\ (last.op = "square" /\ last.res # Err("OutOfMemory") /\ Left.is_ntt) =>
          last.res = Err("InvalidOperation")
    /\ (/\ last.op = "add" /\ last.arg # Null
        /\ Left.ctx = Right.ctx /\ Left.is_ntt = Right.is_ntt) =>
          IsOk(last.res)
    /\ (last.kind \in {"fresh", "inplace"} /\ IsOk(last.res)) =>
          Result.is_ntt = Left.is_ntt

\* two ciphertexts in NTT form were added and the sum is in NTT form, and the
\* square of the first was refused
C15_Witness ==
    /\ last.op = "square" /\ last.kind = "fresh"
    /\ last.res = Err("InvalidOperation")
    /\ Left.is_ntt
    /\ Left.size = 2
    /\ heap[w].is_ntt
    /\ Left.poly = PolyAdd(ctx, heap[y].poly, heap[w].poly)

\* the object the last modulus switch was made on, before and after the call
Switched == IF last.op = "mod_switch_to_next" THEN Left ELSE last.prev
Lowered == IF last.op = "mod_switch_to_next" THEN Result ELSE heap[p]

\* C16: a successful mod_switch_to_next, of a ciphertext or a plaintext, in
\* place or not, lowers chain_level by exactly one and keeps the size; on an
\* object at the last level (chain_level 0) it fails with InvalidOperation
\* and leaves the object as it was. Levels start at k - 1 and never go below
\* 0, so an object takes at most k - 1 successful switches.
C16_ModSwitch ==
    /\ (last.op \in {"mod_switch_to_next", "mod_switch_to_next_plaintext"} /\ IsOk(last.res)) =>
          /\ Lowered.chain_level = Switched.chain_level - 1
          /\ Lowered.kind = Switched.kind
          /\ Switched.kind = "Ciphertext" => Lowered.size = Switched.size
    /\ (/\ last.op \in {"mod_switch_to_next", "mod_switch_to_next_plaintext"}
        /\ last.res # Err("OutOfMemory")
        /\ Switched.chain_level = 0) =>
          /\ last.res = Err("InvalidOperation")
          /\ out = Null
          /\ last.op = "mod_switch_to_next" => heap[x] = Switched
          /\ last.op = "mod_switch_to_next_plaintext" => heap[p] = Switched
    /\ \A h \in DOMAIN heap :
          heap[h].kind \in {"Ciphertext", "Plaintext"} => heap[h].chain_level \in 0..(ctx.K - 1)

\* after two switches in a chain of three moduli, a third in place is refused
C16_Witness ==
    /\ ctx.K = 3
    /\ last.op = "mod_switch_to_next" /\ last.kind = "inplace"
    /\ last.res = Err("InvalidOperation")
    /\ Left.chain_level = 0
    /\ Left.size = 2

\* the orders a list of n ciphertexts can be taken in
Orders(n) == {f \in [1..n -> 1..n] : \A i, j \in 1..n : f[i] = f[j] => i = j}

\* the ciphertext that folding add over the list, taken in the order f, gives
RECURSIVE AddInOrder(_, _, _, _, _)
AddInOrder(m, list, f, k, acc) ==
    IF k > Len(list) THEN [m |-> m, res |-> Ok(acc)]
    ELSE LET r == add(m, evaluator, acc, list[f[k]]) IN
         IF IsErr(r.res) THEN r ELSE AddInOrder(r.m, list, f, k + 1, r.res.val)

\* the ciphertexts of the list are of one context, representation and level
Uniform(list) ==
    \A i \in 1..Len(list) :
        /\ heap[list[i]].ctx = ctx
        /\ heap[list[i]].is_ntt = heap[list[1]].is_ntt
        /\ heap[list[i]].chain_level = heap[list[1]].chain_level

RECURSIVE MultiplyInOrder(_, _, _, _, _)
MultiplyInOrder(m, list, keys, k, acc) ==
    IF k > Len(list) THEN [m |-> m, res |-> Ok(acc)]
    ELSE LET q == multiply(m, evaluator, acc, list[k]) IN
         IF IsErr(q.res) THEN q
         ELSE LET r == relinearize(q.m, evaluator, q.res.val, keys) IN
              IF IsErr(r.res) THEN r ELSE MultiplyInOrder(r.m, list, keys, k + 1, r.res.val)

\* the keys are of the context and enough to relinearize the product of any two
\* ciphertexts of the list
EnoughKeys(keys, list) ==
    /\ keys.ctx = ctx
    /\ \A i, j \in 1..Len(list) :
          i # j => keys.count >= heap[list[i]].size + heap[list[j]].size - 3

\* the product of the list, slot by slot
SlotProduct(list, i) ==
    LET RECURSIVE Upto(_)
        Upto(k) == IF k = 0 THEN 1 ELSE (Upto(k - 1) * SlotsOf(heap[list[k]])[i]) % ctx.T
    IN Upto(Len(list))

C19_Exponentiate ==
    (last.op = "exponentiate" /\ last.res # Err("OutOfMemory")) =>
        LET e == last.arg.exponent
            keys == last.arg.keys
        IN /\ last.res # Err("InvalidArgument")
           /\ (keys.ctx = ctx /\ keys.count >= 2 * Left.size - 3 /\ Left.ctx = ctx /\ ~Left.is_ntt) =>
                IsOk(last.res)
           /\ IsOk(last.res) =>
                /\ \A i \in 1..ctx.N : SlotsOf(Result)[i] = ModPow(SlotsOf(Left)[i], e, ctx.T)
                /\ e >= 1 =>
                      LET r == MultiplyInOrder(Before, [k \in 1..e |-> x], keys, 2, x) IN
                      IsOk(r.res) /\ r.m.heap[r.res.val] = Result

\* a ciphertext raised to the third power, out of place, with a slot that is
\* neither 0 nor 1
C19_Witness ==
    /\ last.op = "exponentiate" /\ last.kind = "fresh" /\ IsOk(last.res)
    /\ last.arg.exponent = 3
    /\ \E i \in 1..ctx.N : SlotsOf(Left)[i] > 1 /\ SlotsOf(Result)[i] > 1

\* the handle of the ciphertext the last call produced
Produced == IF last.kind = "inplace" THEN x ELSE out

\* C20: after a successful rotate_rows or rotate_rows_inplace by s steps,
\* rotate_rows by -s steps with the same keys succeeds and gives a ciphertext
\* that decrypts to the slots the first operand decrypted to; and every step
\* with |s| <= N/2 - 1 is accepted when the keys support it.
C20_RotationInverse ==
    (last.op = "rotate_rows" /\ last.res # Err("OutOfMemory")) =>
        LET s == last.arg.steps
            gk == last.arg.keys
        IN /\ (0 - s <= (ctx.N \div 2) - 1 /\ s <= (ctx.N \div 2) - 1 /\ (s = 0 \/ s \in gk.steps)) =>
                IsOk(last.res)
           /\ IsOk(last.res) =>
                LET r == rotate_rows(Machine(heap, faults, FALSE), evaluator, Produced, 0 - s, gk) IN
                /\ IsOk(r.res)
                /\ SlotsOf(r.m.heap[r.res.val]) = SlotsOf(Left)
                /\ r.m.heap[r.res.val].size = Left.size

\* a matrix of eight different values rotated by one step to the left: every
\* slot moved
C20_Witness ==
    /\ last.op = "rotate_rows" /\ last.kind = "fresh" /\ IsOk(last.res)
    /\ last.arg.steps = 1
    /\ \A i \in 1..ctx.N : SlotsOf(Result)[i] # SlotsOf(Left)[i]
    /\ SlotsOf(Result)[1] = SlotsOf(Left)[2]

\* the slots of a row of the 2-by-(N/2) matrix: row 0 is slots 1..N/2, row 1 is
\* slots N/2+1..N (counted from 1)
RowLength == ctx.N \div 2
SlotAt(obj, row, j) == SlotsOf(obj)[row * RowLength + j + 1]

\* C21: a successful rotate_rows or rotate_rows_inplace by steps rotates each
\* of the two rows by itself: slot j of a row of the result is slot
\* (j + steps) mod N/2 of the same row of the operand, which is a rotation to
\* the left for steps > 0 and to the right for steps < 0; for steps = -1 slot
\* j of a row moves to slot j + 1 of that row.
C21_RotateRows ==
    (last.op = "rotate_rows" /\ IsOk(last.res)) =>
        \A row \in 0..1, j \in 0..(RowLength - 1) :
            SlotAt(Result, row, j) = SlotAt(Left, row, (j + last.arg.steps) % RowLength)

\* can_rotate_rows_inplace: make_matrix rotated by -1 in place has a[0] at
\* c[1], a[1] at c[2], a[N/2] at c[N/2 + 1] and a[N/2 + 1] at c[N/2 + 2]
C21_Witness ==
    /\ last.op = "rotate_rows" /\ last.kind = "inplace" /\ IsOk(last.res)
    /\ last.arg.steps = 0 - 1
    /\ SlotsOf(Left) = <<1, ctx.T - 2, 0, 0, ctx.T - 1, 2, 0, 0>>
    /\ SlotsOf(Result) = <<0, 1, ctx.T - 2, 0, 0, ctx.T - 1, 2, 0>>

\* C22: rotate_rows and rotate_rows_inplace succeed for every step with
\* |steps| <= N/2 - 1 that the Galois keys support, fail with InvalidArgument
\* for every step with |steps| > N/2 - 1, returning no ciphertext and leaving
\* the operand as it was, and with steps = 0 give a ciphertext that decrypts to
\* the slots of the operand.
C22_StepRange ==
    (last.op = "rotate_rows" /\ last.res # Err("OutOfMemory")) =>
        LET s == last.arg.steps
            gk == last.arg.keys
            InRange == s <= RowLength - 1 /\ 0 - s <= RowLength - 1
        IN /\ (InRange /\ (s = 0 \/ s \in gk.steps)) => IsOk(last.res)
           /\ ~InRange =>
                /\ last.res = Err("InvalidArgument")
                /\ out = Null
                /\ heap[x] = Left
           /\ (s = 0 /\ IsOk(last.res)) => SlotsOf(Result) = SlotsOf(Left)

\* a rotation by N/2 steps, one past the range, was refused
C22_Witness ==
    /\ last.op = "rotate_rows" /\ last.kind = "fresh"
    /\ last.arg.steps = RowLength
    /\ RowLength = 4
    /\ last.arg.steps \in last.arg.keys.steps
    /\ last.res = Err("InvalidArgument")

\* C23: a successful rotate_columns or rotate_columns_inplace swaps the two
\* rows: slot i of the result is slot i + N/2 of the operand and slot i + N/2
\* of the result is slot i of the operand, for every i < N/2; and
\* rotate_columns of the result, with the same keys, succeeds and decrypts to
\* the slots of the operand.
C23_RotateColumns ==
    (last.op = "rotate_columns" /\ IsOk(last.res)) =>
        /\ \A j \in 0..(RowLength - 1) :
              /\ SlotAt(Result, 0, j) = SlotAt(Left, 1, j)
              /\ SlotAt(Result, 1, j) = SlotAt(Left, 0, j)
        /\ LET r == rotate_columns(Machine(heap, faults, FALSE), evaluator, Produced, last.arg.keys) IN
           /\ IsOk(r.res)
           /\ SlotsOf(r.m.heap[r.res.val]) = SlotsOf(Left)

\* can_rotate_columns: the rows of make_matrix swapped
C23_Witness ==
    /\ last.op = "rotate_columns" /\ last.kind = "fresh" /\ IsOk(last.res)
    /\ SlotsOf(Left) = <<1, ctx.T - 2, 0, 0, ctx.T - 1, 2, 0, 0>>
    /\ SlotsOf(Result) = <<ctx.T - 1, 2, 0, 0, 1, ctx.T - 2, 0, 0>>

\* the out-of-place shape of the last call, made on the machine m
OutOfPlace(m) ==
    LET a == last.arg IN
    CASE last.op = "negate" -> negate(m, evaluator, x)
      [] last.op = "add" -> add(m, evaluator, x, a)
      [] last.op = "sub" -> sub(m, evaluator, x, a)
      [] last.op = "multiply" -> multiply(m, evaluator, x, a)
      [] last.op = "square" -> square(m, evaluator, x)
      [] last.op = "mod_switch_to_next" -> mod_switch_to_next(m, evaluator, x)
      [] last.op = "exponentiate" -> exponentiate(m, evaluator, x, a.exponent, a.keys)
      [] last.op = "add_plain" -> add_plain(m, evaluator, x, p)
      [] last.op = "sub_plain" -> sub_plain(m, evaluator, x, p)
      [] last.op = "multiply_plain" -> multiply_plain(m, evaluator, x, p)
      [] last.op = "relinearize" -> relinearize(m, evaluator, x, a.keys)
      [] last.op = "rotate_rows" -> rotate_rows(m, evaluator, x, a.steps, a.keys)
      [] last.op = "rotate_columns" -> rotate_columns(m, evaluator, x, a.keys)

\* the in-place shape of the last call, made on the machine m
InPlaceShape(m) ==
    LET a == last.arg IN
    CASE last.op = "negate" -> negate_inplace(m, evaluator, x)
      [] last.op = "add" -> add_inplace(m, evaluator, x, a)
      [] last.op = "sub" -> sub_inplace(m, evaluator, x, a)
      [] last.op = "multiply" -> multiply_inplace(m, evaluator, x, a)
      [] last.op = "square" -> square_inplace(m, evaluator, x)
      [] last.op = "mod_switch_to_next" -> mod_switch_to_next_inplace(m, evaluator, x)
      [] last.op = "exponentiate" -> exponentiate_inplace(m, evaluator, x, a.exponent, a.keys)
      [] last.op = "add_plain" -> add_plain_inplace(m, evaluator, x, p)
      [] last.op = "sub_plain" -> sub_plain_inplace(m, evaluator, x, p)
      [] last.op = "multiply_plain" -> multiply_plain_inplace(m, evaluator, x, p)
      [] last.op = "relinearize" -> relinearize_inplace(m, evaluator, x, a.keys)
      [] last.op = "rotate_rows" -> rotate_rows_inplace(m, evaluator, x, a.steps, a.keys)
      [] last.op = "rotate_columns" -> rotate_columns_inplace(m, evaluator, x, a.keys)

\* the operations exposed in both shapes
TwoShapes ==
    {"negate", "add", "sub", "multiply", "square", "mod_switch_to_next", "exponentiate", "add_plain",
     "sub_plain", "multiply_plain", "relinearize", "rotate_rows", "rotate_columns"}

\* C24: for each operation exposed in both shapes, when the fresh destination
\* of the out-of-place shape can be allocated, the in-place call and the
\* out-of-place call on the same operands return the same outcome (both
\* succeed, or both fail with the same error), and on success the in-place
\* call leaves in its operand the ciphertext (ring element, size, is_ntt,
\* chain_level) that the out-of-place call returns.
C24_TwoShapes ==
    /\ (last.kind = "inplace" /\ last.op \in TwoShapes) =>
          LET r == OutOfPlace(Before) IN
          /\ IsOk(r.res) <=> IsOk(last.res)
          /\ IsErr(r.res) => r.res = last.res
          /\ IsOk(r.res) => r.m.heap[r.res.val] = heap[x]
    /\ (last.kind = "fresh" /\ last.op \in TwoShapes /\ last.res # Err("OutOfMemory")) =>
          LET r == InPlaceShape(Machine(heap, faults, FALSE)) IN
          /\ IsOk(r.res) <=> IsOk(last.res)
          /\ IsErr(r.res) => r.res = last.res
          /\ IsOk(r.res) => r.m.heap[x] = heap[out]

\* a subtraction in place that changed its operand
C24_Witness ==
    /\ last.op = "sub" /\ last.kind = "inplace" /\ IsOk(last.res)
    /\ heap[x].poly # Left.poly
    /\ heap[x].poly # PolyNeg(ctx, Left.poly)
    /\ Left.size = 3

\* the ciphertext-ciphertext operation of a plain variant, applied to the
\* operand and to an encryption of the plaintext p
WithEncrypted ==
    LET c == Encrypt(Before, ctx, p) IN
    CASE last.op = "add_plain" -> add(c.m, evaluator, x, c.handle)
      [] last.op = "sub_plain" -> sub(c.m, evaluator, x, c.handle)
      [] last.op = "multiply_plain" -> multiply(c.m, evaluator, x, c.handle)

\* C25: on a ciphertext of the context and a plaintext in the same NTT state,
\* add_plain, sub_plain and multiply_plain, in place or not, succeed (when the
\* destination can be allocated); the result decrypts to a[i] + b[i],
\* a[i] - b[i] and a[i] * b[i] modulo T in every slot, has the size of the
\* ciphertext, and decrypts to what add, sub and multiply give on the
\* ciphertext and an encryption of the plaintext, whenever these succeed.
C25_PlainVariants ==
    (last.op \in {"add_plain", "sub_plain", "multiply_plain"} /\ last.res # Err("OutOfMemory")) =>
        /\ (Left.ctx = ctx /\ Left.is_ntt = heap[p].is_ntt) => IsOk(last.res)
        /\ IsOk(last.res) =>
              /\ Result.size = Left.size
              /\ \A i \in 1..ctx.N :
                    LET a == SlotsOf(Left)[i]
                        b == SlotsOf(heap[p])[i]
                    IN SlotsOf(Result)[i] =
                          CASE last.op = "add_plain" -> (a + b) % ctx.T
                            [] last.op = "sub_plain" -> (a - b) % ctx.T
                            [] last.op = "multiply_plain" -> (a * b) % ctx.T
              /\ LET r == WithEncrypted IN
                 IsOk(r.res) => SlotsOf(r.m.heap[r.res.val]) = SlotsOf(Result)

\* a ciphertext of size 3 multiplied by a plaintext, where multiply by the
\* encrypted plaintext gives size 4 and the same slots
C25_Witness ==
    /\ last.op = "multiply_plain" /\ last.kind = "fresh" /\ IsOk(last.res)
    /\ Left.size = 3
    /\ Result.size = 3
    /\ IsOk(WithEncrypted.res)
    /\ WithEncrypted.m.heap[WithEncrypted.res.val].size = 4
    /\ \E i \in 1..ctx.N : SlotsOf(Result)[i] > 1 /\ SlotsOf(Result)[i] # SlotsOf(Left)[i]

\* the residue r as decode_signed gives it: in the centered range [-T/2, T/2)
CenteredValue(r) == IF 2 * r < ctx.T THEN r ELSE r - ctx.T

\* add(x, negate(b)) on the machine before the last call
AddNegated ==
    LET n == negate(Before, evaluator, last.arg) IN
    IF IsErr(n.res) THEN n ELSE add(n.m, evaluator, x, n.res.val)

\* C26: a successful negate or negate_inplace gives a ciphertext that decrypts
\* to -a[i] modulo T in every slot; a successful sub or sub_inplace gives one
\* that decrypts to a[i] - b[i] modulo T in every slot and is the ciphertext
\* add(x, negate(b)) gives; decode_signed of the decrypted result gives these
\* values in the centered range.
C26_SubAndNegate ==
    /\ (last.op = "negate" /\ IsOk(last.res)) =>
          \A i \in 1..ctx.N : SlotsOf(Result)[i] = (0 - SlotsOf(Left)[i]) % ctx.T
    /\ (last.op = "sub" /\ IsOk(last.res)) =>
          /\ \A i \in 1..ctx.N :
                SlotsOf(Result)[i] = (SlotsOf(Left)[i] - SlotsOf(Right)[i]) % ctx.T
          /\ IsOk(AddNegated.res)
          /\ AddNegated.m.heap[AddNegated.res.val] = Result
    /\ (last.op \in {"negate", "sub"} /\ IsOk(last.res) /\ decoded.op = "decode_signed" /\ IsOk(decoded.res)) =>
          \A i \in 1..Len(decoded.res.val) :
              decoded.res.val[i] =
                  CenteredValue(IF last.op = "negate" THEN (0 - SlotsOf(Left)[i]) % ctx.T
                                ELSE (SlotsOf(Left)[i] - SlotsOf(Right)[i]) % ctx.T)

\* can_sub: a - b with a = <<1, 2>> and b = <<2, -1>> decodes to <<-1, 3>>,
\* which is <<-1, -2>> in the centered range of T = 5
C26_Witness ==
    /\ last.op = "sub" /\ last.kind = "fresh" /\ IsOk(last.res)
    /\ Encrypts(Left, data.a)
    /\ Encrypts(Right, data.b)
    /\ data.a = <<1, 2>>
    /\ decoded.op = "decode_signed"
    /\ decoded.res = Ok(<<0 - 1, 0 - 2>>)

\* the objects h of the heap are after the step what they were before it
Kept(H) == \A h \in H : h \in DOMAIN heap' /\ heap'[h] = heap[h]

\* a decode of the plaintext p, whatever length the backend reports, leaves
\* every object as it was
DecodeKeeps ==
    (p # Null /\ encoder # Null /\ p \in DOMAIN heap /\ encoder \in DOMAIN heap) =>
        \A size \in ReportedLengths(ctx, Slots(ctx, heap[p].poly)) :
            /\ decode_signed(Machine(heap, faults, FALSE), encoder, p, size).m.heap = heap
            /\ decode_unsigned(Machine(heap, faults, FALSE), encoder, p, size).m.heap = heap

Operands ==
    CASE last.op \in {"add", "sub", "multiply"} -> {Left, Right}
      [] last.op = "add_many" -> {heap[last.arg[i]] : i \in 1..Len(last.arg)}
      [] last.op = "multiply_many" -> {heap[last.arg.list[i]] : i \in 1..Len(last.arg.list)}
      [] OTHER -> {Left}
\* the last call was a successful operation on ciphertexts
Done == last.kind \in {"inplace", "fresh"} /\ IsOk(last.res)
\* the destination of an in-place call has more components than it had, or a
\* returned ciphertext has more than every operand
Grew ==
    IF last.kind = "inplace" THEN Result.size > Left.size
    ELSE \A o \in Operands : Result.size > o.size
\* the destination of an in-place call has fewer components than it had, or a
\* returned ciphertext has fewer than every operand
Shrank ==
    IF last.kind = "inplace" THEN Result.size < Left.size
    ELSE \A o \in Operands : Result.size < o.size
\* every ciphertext has at least two components, a fresh encryption exactly two
SizeFloor ==
    /\ \A h \in DOMAIN heap : heap[h].kind = "Ciphertext" => heap[h].size >= 2
    /\ (phase = "run" /\ y \in DOMAIN heap) => heap[y].size = 2

====
